---------------------------- MODULE Spec2Model ----------------------------
(***************************************************************************)
(* A model of the httpd package (Sharpe-x/httpd): the per-connection loop  *)
(* conn.serve, the request parser readRequest/readHeader, the body readers *)
(* chosen by Request.setupBody (eofReader, io.LimitedReader, chunkReader,  *)
(* expectContinueReader) and the response write buffer.                    *)
(*                                                                         *)
(* Byte strings are sequences of one-character strings.  The transport is  *)
(* a byte sequence the peer has sent; a read of the transport returns any  *)
(* nonzero number of the bytes that are left (TCP segmentation), and       *)
(* end-of-file once the peer has sent everything and closed.               *)
(***************************************************************************)
EXTENDS Integers, Sequences, FiniteSets, TLC

(***************************************************************************)
(* Bounds of the model.  ConnBufSize stands for the 4<<10 bytes of         *)
(* bufio.NewReaderSize in newConn (src/httpd/conn.go:55), WriteBufSize for *)
(* the 4<<10 bytes of bufio.NewWriterSize (src/httpd/conn.go:53) and       *)
(* HeaderLimit for the 1<<20 of the io.LimitedReader                       *)
(* (src/httpd/conn.go:49), all scaled down: the read buffer so that lines  *)
(* and bodies longer than the buffer occur, the cap so that a header block *)
(* longer than the cap occurs; the write buffer still holds the 100        *)
(* Continue line, as the real one does.                                    *)
(***************************************************************************)
ConnBufSize == 3
WriteBufSize == 32
HeaderLimit == 96
MaxReadLen == 3
MaxWrites == 2

\* const noLimit = (1 << 63) - 1, cut to the largest integer TLC represents
noLimit == 2147483647

---------------------------------------------------------------------------
(* Byte-string helpers: the library functions the package calls.           *)

Min(a, b) == IF a < b THEN a ELSE b
Max(a, b) == IF a > b THEN a ELSE b

Take(s, n) == SubSeq(s, 1, Min(Max(n, 0), Len(s)))
Drop(s, n) == SubSeq(s, Min(Max(n, 0), Len(s)) + 1, Len(s))

CR == "\r"
LF == "\n"
SP == " "
CRLF == <<CR, LF>>

\* strings.IndexByte / bytes.IndexByte: 0-based index of the first c, or -1
IndexByte(s, c) ==
    IF \E i \in 1..Len(s) : s[i] = c
    THEN (CHOOSE i \in 1..Len(s) : s[i] = c /\ \A j \in 1..(i - 1) : s[j] # c) - 1
    ELSE -1

HasPrefixAt(s, i, sub) ==
    /\ i + Len(sub) - 1 <= Len(s)
    /\ \A j \in 1..Len(sub) : s[i + j - 1] = sub[j]

\* bytes.Index: 0-based index of the first occurrence of sub, or -1
Index(s, sub) ==
    IF \E i \in 1..(Len(s) + 1) : HasPrefixAt(s, i, sub)
    THEN (CHOOSE i \in 1..(Len(s) + 1) :
            HasPrefixAt(s, i, sub) /\ \A j \in 1..(i - 1) : ~HasPrefixAt(s, j, sub)) - 1
    ELSE -1

IsSpace(c) == c \in {" ", "\t", "\r", "\n"}

RECURSIVE TrimLeft(_)
TrimLeft(s) == IF s # <<>> /\ IsSpace(s[1]) THEN TrimLeft(Tail(s)) ELSE s

RECURSIVE TrimRight(_)
TrimRight(s) ==
    IF s # <<>> /\ IsSpace(s[Len(s)]) THEN TrimRight(SubSeq(s, 1, Len(s) - 1)) ELSE s

\* strings.TrimSpace
TrimSpace(s) == TrimRight(TrimLeft(s))

Digits == <<"0", "1", "2", "3", "4", "5", "6", "7", "8", "9">>
IsDigit(c) == \E i \in 1..10 : Digits[i] = c
DigitVal(c) == (CHOOSE i \in 1..10 : Digits[i] = c) - 1

RECURSIVE DigitsVal(_, _)
DigitsVal(s, acc) ==
    IF s = <<>> THEN acc ELSE DigitsVal(Tail(s), acc * 10 + DigitVal(s[1]))

\* strconv.ParseInt(s, 10, 64): an optional sign, then one or more decimal
\* digits; anything else is a syntax error.  (The inputs of the model are
\* short, so the range error of ParseInt does not arise.)
ParseInt(s) ==
    LET signed == s # <<>> /\ s[1] \in {"+", "-"}
        ds     == IF signed THEN Tail(s) ELSE s
        ok     == ds # <<>> /\ \A i \in 1..Len(ds) : IsDigit(ds[i])
        v      == IF ok THEN DigitsVal(ds, 0) ELSE 0
    IN  [ok |-> ok, val |-> IF s # <<>> /\ s[1] = "-" THEN 0 - v ELSE v]

\* One %s of fmt.Sscanf: skip white space, then take the run of non-space
\* bytes.  tok is empty when the input ends first.
ScanToken(s) ==
    LET t == TrimLeft(s)
        n == IF \E i \in 1..Len(t) : IsSpace(t[i])
             THEN (CHOOSE i \in 1..Len(t) : IsSpace(t[i]) /\ \A j \in 1..(i - 1) : ~IsSpace(t[j])) - 1
             ELSE Len(t)
    IN  [tok |-> Take(t, n), rest |-> Drop(t, n)]

\* fmt.Sscanf(line, "%s%s%s", &Method, &RequestURI, &Proto)
Sscanf3(line) ==
    LET a == ScanToken(line)
        b == ScanToken(a.rest)
        c == ScanToken(b.rest)
    IN  [ok |-> a.tok # <<>> /\ b.tok # <<>> /\ c.tok # <<>>,
         Method |-> a.tok, RequestURI |-> b.tok, Proto |-> c.tok]

IsAlpha(c) ==
    c \in {"a", "b", "c", "d", "e", "f", "g", "h", "i", "j", "k", "l", "m", "n", "o", "p",
           "q", "r", "s", "t", "u", "v", "w", "x", "y", "z",
           "A", "B", "C", "D", "E", "F", "G", "H", "I", "J", "K", "L", "M", "N", "O", "P",
           "Q", "R", "S", "T", "U", "V", "W", "X", "Y", "Z"}

\* url.ParseRequestURI on the byte strings of the model: "*" and a target
\* that starts with "/" parse; any other target parses only when it has a
\* scheme (a letter, then letters, digits, "+", "-", "." up to a ":").
ParseRequestURIOk(u) ==
    /\ u # <<>>
    /\ \/ u = <<"*">>
       \/ u[1] = "/"
       \/ LET i == IndexByte(u, ":")
          IN  /\ i > 0
              /\ IsAlpha(u[1])
              /\ \A j \in 1..i : IsAlpha(u[j]) \/ IsDigit(u[j]) \/ u[j] \in {"+", "-", "."}

---------------------------------------------------------------------------
(* Byte strings the package compares against.                              *)

sPOST == <<"P", "O", "S", "T">>
sPUT == <<"P", "U", "T">>
sGET == <<"G", "E", "T">>
sProto == <<"H", "T", "T", "P", "/", "1", ".", "1">>
sContentLength == <<"C", "o", "n", "t", "e", "n", "t", "-", "L", "e", "n", "g", "t", "h">>
sTransferEncoding == <<"T", "r", "a", "n", "s", "f", "e", "r", "-", "E", "n", "c", "o", "d", "i", "n", "g">>
sExpect == <<"E", "x", "p", "e", "c", "t">>
sChunked == <<"c", "h", "u", "n", "k", "e", "d">>
s100continue == <<"1", "0", "0", "-", "c", "o", "n", "t", "i", "n", "u", "e">>
sGzip == <<"g", "z", "i", "p">>
sContentType == <<"C", "o", "n", "t", "e", "n", "t", "-", "T", "y", "p", "e">>
sBoundary == <<"b", "o", "u", "n", "d", "a", "r", "y">>
sMultipart == <<"m", "u", "l", "t", "i", "p", "a", "r", "t", "/", "f", "o", "r", "m", "-", "d", "a", "t", "a">>
sContinueLine == <<"H", "T", "T", "P", "/", "1", ".", "1", " ", "1", "0", "0", " ",
                   "C", "o", "n", "t", "i", "n", "u", "e", "\r", "\n", "\r", "\n">>

---------------------------------------------------------------------------
(* The buffered source of a connection: c.bufr over c.lr over c.rwc.       *)
(* A source is a record [bufr, rwc, N]: the bytes buffered and unread in   *)
(* c.bufr, the bytes of the transport not yet read, and c.lr.N.            *)

Source(b, w, n) == [bufr |-> b, rwc |-> w, N |-> n]

\* The bytes io.LimitedReader still lets through: none once N <= 0.
Allowed(src) == Take(src.rwc, src.N)

\* Everything a reader of c.bufr can get before it meets end-of-file.
Visible(src) == src.bufr \o Allowed(src)

\* How many bytes the fills of c.bufr take from the transport while one
\* call consumes c bytes: none when they are buffered already, otherwise
\* the missing bytes and whatever more the last fill found, which fits the
\* buffer beside at least one byte of what the call consumes.
Pulls(src, c) ==
    IF c <= Len(src.bufr) THEN {0}
    ELSE (c - Len(src.bufr)) ..
         Min(Len(Allowed(src)), c - Len(src.bufr) + ConnBufSize - 1)

\* The source after a call consumed c bytes and its fills took p bytes.
After(src, c, p) ==
    LET all == src.bufr \o Take(src.rwc, p)
    IN  Source(Drop(all, c), Drop(src.rwc, p), src.N - p)

\* bufio.Reader.ReadLine joined by readLine: the bytes up to the first LF,
\* without the LF and without a CR before it.  At end-of-file an
\* unterminated rest is returned as a line, and nothing left is io.EOF.
LineOf(v) ==
    LET i == IndexByte(v, LF)
    IN  IF v = <<>> THEN [err |-> "EOF", line |-> <<>>, c |-> 0]
        ELSE IF i = -1 THEN [err |-> "nil", line |-> v, c |-> Len(v)]
        ELSE IF i > 0 /\ v[i] = CR
             THEN [err |-> "nil", line |-> Take(v, i - 1), c |-> i + 1]
             ELSE [err |-> "nil", line |-> Take(v, i), c |-> i + 1]

\* readLine(bufr): the outcomes [err, line, src] over the transport's
\* segmentations.
readLine(src) ==
    LET l == LineOf(Visible(src))
    IN  {[err |-> l.err, line |-> l.line, src |-> After(src, l.c, p)] : p \in Pulls(src, l.c)}

\* bufio.Reader.Read(p) with len(p) = len: the buffered bytes when there are
\* any; otherwise one read of the transport (straight into p when p is at
\* least as large as the buffer), which returns 1..k bytes.
bufrRead(src, len) ==
    IF len = 0 THEN {[n |-> 0, data |-> <<>>, err |-> "nil", src |-> src]}
    ELSE IF src.bufr # <<>>
    THEN {[n |-> Min(len, Len(src.bufr)), data |-> Take(src.bufr, len), err |-> "nil",
           src |-> Source(Drop(src.bufr, len), src.rwc, src.N)]}
    ELSE IF Allowed(src) = <<>>
    THEN {[n |-> 0, data |-> <<>>, err |-> "EOF", src |-> src]}
    ELSE {[n |-> Min(len, k), data |-> Take(src.rwc, Min(len, k)), err |-> "nil",
           src |-> After(src, Min(len, k), k)] :
            k \in 1..Min(Len(Allowed(src)), Max(len, ConnBufSize))}

\* io.ReadFull(bufr, p[:m]): exactly m bytes, or the bytes there are and
\* io.EOF (none read) or io.ErrUnexpectedEOF (some read).
ReadFull(src, m) ==
    LET c == Min(m, Len(Visible(src)))
        e == IF c = m THEN "nil" ELSE IF c = 0 THEN "EOF" ELSE "ErrUnexpectedEOF"
    IN  {[n |-> c, data |-> Take(Visible(src), c), err |-> e, src |-> After(src, c, p)] :
            p \in Pulls(src, c)}

---------------------------------------------------------------------------
(* Header and the request parser.                                          *)

\* make(Header): a map from names to lists of values
EmptyHeader == [k \in {} |-> <<>>]

\* (mutant) header[k] = []string{v}
HeaderAppend_Overwrite(h, k, v) ==
    IF k \in DOMAIN h THEN [h EXCEPT ![k] = <<v>>] ELSE h @@ (k :> <<v>>)

\* header[k] = append(header[k], v)
HeaderAppend(h, k, v) ==
    IF k \in DOMAIN h THEN [h EXCEPT ![k] = Append(@, v)] ELSE h @@ (k :> <<v>>)

\* Header.Get: the first value of key, or ""
Get(h, key) == IF key \in DOMAIN h /\ Len(h[key]) > 0 THEN h[key][1] ELSE <<>>

\* readHeader over the visible bytes v: lines up to the first empty one.
\* c counts the bytes consumed.
RECURSIVE readHeaderFrom(_, _, _)
readHeaderFrom(v, header, c) ==
    LET l     == LineOf(v)
        index == IndexByte(l.line, ":")
    IN  IF l.err # "nil" THEN [err |-> l.err, Header |-> EmptyHeader, c |-> c + l.c]
        ELSE IF Len(l.line) = 0 THEN [err |-> "nil", Header |-> header, c |-> c + l.c]
        ELSE IF index = -1 \/ index = Len(l.line) - 1
             THEN readHeaderFrom(Drop(v, l.c), header, c + l.c)
             ELSE readHeaderFrom(Drop(v, l.c),
                                 HeaderAppend(header, Take(l.line, index),
                                              TrimSpace(Drop(l.line, index + 1))),
                                 c + l.c)

readHeader(v) == readHeaderFrom(v, EmptyHeader, 0)

\* readRequest up to the point where the headers are parsed, over the
\* visible bytes v: the request line, its three tokens, the request-target,
\* the header block.
parseRequest(v) ==
    LET l == LineOf(v)
        t == Sscanf3(l.line)
        h == readHeader(Drop(v, l.c))
        bad(e) == [err |-> e, c |-> l.c, Method |-> <<>>, RequestURI |-> <<>>,
                   Proto |-> <<>>, Header |-> EmptyHeader]
    IN  IF l.err # "nil" THEN bad(l.err)
        ELSE IF ~t.ok THEN bad("scan")
        ELSE IF ~ParseRequestURIOk(t.RequestURI) THEN bad("url")
        ELSE IF h.err # "nil" THEN bad(h.err)
        ELSE [err |-> "nil", c |-> l.c + h.c, Method |-> t.Method,
              RequestURI |-> t.RequestURI, Proto |-> t.Proto, Header |-> h.Header]

\* Request.chunked
chunked(Header) == Get(Header, sTransferEncoding) = sChunked

\* The body readers.  A body is a record: kind names the reader under the
\* optional expectContinueReader (expect); N is io.LimitedReader.N; n and
\* done are chunkReader's fields; wroteContinue is expectContinueReader's.
eofReader == [kind |-> "eofReader", N |-> 0, n |-> 0, done |-> FALSE,
              expect |-> FALSE, wroteContinue |-> FALSE]
LimitReader(N) == [eofReader EXCEPT !.kind = "LimitedReader", !.N = N]
chunkReader == [eofReader EXCEPT !.kind = "chunkReader"]

\* Request.fixExpectContinueReader
fixExpectContinueReader(Header, b) ==
    IF Get(Header, sExpect) # s100continue THEN b ELSE [b EXCEPT !.expect = TRUE]

\* (mutant) Request.setupBody that looks at Content-Length before
\* Transfer-Encoding
setupBody_LengthFirst(Method, Header) ==
    LET cl == Get(Header, sContentLength)
        contentLength == ParseInt(cl)
    IN  IF Method # sPOST /\ Method # sPUT THEN eofReader
        ELSE IF cl # <<>>
             THEN IF ~contentLength.ok THEN eofReader
                  ELSE fixExpectContinueReader(Header, LimitReader(contentLength.val))
        ELSE IF chunked(Header) THEN fixExpectContinueReader(Header, chunkReader)
        ELSE eofReader

\* Request.setupBody
setupBody(Method, Header) ==
    LET cl == Get(Header, sContentLength)
        contentLength == ParseInt(cl)
    IN  IF Method # sPOST /\ Method # sPUT THEN eofReader
        ELSE IF chunked(Header) THEN fixExpectContinueReader(Header, chunkReader)
        ELSE IF cl # <<>>
             THEN IF ~contentLength.ok THEN eofReader
                  ELSE fixExpectContinueReader(Header, LimitReader(contentLength.val))
        ELSE eofReader

\* strings.Split(s, "=") as far as parseContentType uses it: the number of
\* pieces and the first two of them
SplitEq(s) ==
    LET i == IndexByte(s, "=")
        t == Drop(s, i + 1)
        j == IndexByte(t, "=")
    IN  IF i = -1 THEN [len |-> 1, s0 |-> s, s1 |-> <<>>]
        ELSE [len |-> IF j = -1 THEN 2 ELSE 3, s0 |-> Take(s, i),
              s1 |-> IF j = -1 THEN t ELSE Take(t, j)]

RECURSIVE TrimQuotesLeft(_)
TrimQuotesLeft(s) == IF s # <<>> /\ s[1] = "\"" THEN TrimQuotesLeft(Tail(s)) ELSE s

RECURSIVE TrimQuotesRight(_)
TrimQuotesRight(s) ==
    IF s # <<>> /\ s[Len(s)] = "\"" THEN TrimQuotesRight(SubSeq(s, 1, Len(s) - 1)) ELSE s

\* Request.parseContentType: [contentType, boundary]
parseContentType(Header) ==
    LET ct    == Get(Header, sContentType)
        index == IndexByte(ct, ";")
        ss    == SplitEq(Drop(ct, index + 1))
    IN  IF index = -1 THEN [contentType |-> ct, boundary |-> <<>>]
        ELSE IF index = Len(ct) - 1 THEN [contentType |-> <<>>, boundary |-> <<>>]
        ELSE IF ss.len < 2 \/ TrimSpace(ss.s0) # sBoundary
             THEN [contentType |-> <<>>, boundary |-> <<>>]
        ELSE [contentType |-> Take(ct, index),
              boundary |-> TrimQuotesRight(TrimQuotesLeft(ss.s1))]

---------------------------------------------------------------------------
(* Read on the body readers.  Each returns the set of outcomes             *)
(* [n, data, err, body, src] of one Read(p) with len(p) = len.             *)

Outcome(n, data, err, b, src) == [n |-> n, data |-> data, err |-> err, body |-> b, src |-> src]

\* eofReader.Read
eofReaderRead(b, src, len) == {Outcome(0, <<>>, "EOF", b, src)}

\* (mutant) io.LimitedReader.Read without the cut of p to N bytes
LimitedReaderRead_Uncut(b, src, len) ==
    IF b.N <= 0 THEN {Outcome(0, <<>>, "EOF", b, src)}
    ELSE {Outcome(o.n, o.data, o.err, [b EXCEPT !.N = @ - o.n], o.src) :
            o \in bufrRead(src, len)}

\* io.LimitedReader.Read
LimitedReaderRead(b, src, len) ==
    IF b.N <= 0 THEN {Outcome(0, <<>>, "EOF", b, src)}
    ELSE {Outcome(o.n, o.data, o.err, [b EXCEPT !.N = @ - o.n], o.src) :
            o \in bufrRead(src, Min(len, b.N))}

\* chunkReader.discardCRLF
discardCRLF(src) ==
    {[err |-> IF o.err = "nil" /\ o.data # CRLF THEN "unsupported encoding" ELSE o.err,
      src |-> o.src] : o \in ReadFull(src, 2)}

\* chunkReader.getChunkSize
getChunkSize(src) ==
    {LET size == ParseInt(l.line)
     IN  IF l.err # "nil" THEN [size |-> 0, err |-> l.err, src |-> l.src]
         ELSE IF ~size.ok THEN [size |-> 0, err |-> "syntax", src |-> l.src]
         ELSE [size |-> size.val, err |-> "nil", src |-> l.src] : l \in readLine(src)}

\* chunkReader.Read once cr.n is known to be nonzero
chunkReaderData(b, src, len) ==
    IF len <= b.n
    THEN {Outcome(o.n, o.data, o.err, [b EXCEPT !.n = @ - o.n], o.src) :
            o \in bufrRead(src, len)}
    ELSE IF b.n < 0
    THEN {Outcome(0, <<>>, "panic", b, src)}    \* p[:cr.n]: slice bounds out of range
    ELSE UNION {{Outcome(f.n, f.data, d.err, [b EXCEPT !.n = 0], d.src) :
                    d \in discardCRLF(f.src)} : f \in ReadFull(src, b.n)}

\* (mutant) chunkReader.Read that sets done at the size line 0 and leaves the
\* CRLF after it unread
chunkReaderNext_KeepsCRLF(b, src, len) ==
    IF b.n = 0
    THEN {Outcome(0, <<>>, "nil", [b EXCEPT !.done = TRUE], src)}
    ELSE chunkReaderData(b, src, len)

\* chunkReader.Read from the test of cr.n after getChunkSize
chunkReaderNext(b, src, len) ==
    IF b.n = 0
    THEN {Outcome(0, <<>>, d.err, [b EXCEPT !.done = TRUE], d.src) : d \in discardCRLF(src)}
    ELSE chunkReaderData(b, src, len)

\* chunkReader.Read
chunkReaderRead(b, src, len) ==
    IF b.done THEN {Outcome(0, <<>>, "EOF", b, src)}
    ELSE IF b.n = 0
    THEN UNION {IF g.err # "nil"
                THEN {Outcome(0, <<>>, g.err, [b EXCEPT !.n = g.size], g.src)}
                ELSE chunkReaderNext([b EXCEPT !.n = g.size], g.src, len) :
                    g \in getChunkSize(src)}
    ELSE chunkReaderNext(b, src, len)

\* The Read of the reader under the expectContinueReader, if any
innerRead(b, src, len) ==
    CASE b.kind = "eofReader" -> eofReaderRead(b, src, len)
      [] b.kind = "LimitedReader" -> LimitedReaderRead(b, src, len)
      [] b.kind = "chunkReader" -> chunkReaderRead(b, src, len)

\* A Read at this moment would report end-of-stream and consume nothing.
AtEOF(b) ==
    \/ b.kind = "eofReader"
    \/ b.kind = "LimitedReader" /\ b.N <= 0
    \/ b.kind = "chunkReader" /\ b.done

---------------------------------------------------------------------------
(* The write buffer c.bufw over the transport.  A sink is [bufw, out].     *)

\* bufio.Writer.Write(p): p goes to the buffer when it fits; a write larger
\* than the free space flushes the buffer first (or goes straight to the
\* transport when the buffer is empty).
RECURSIVE bufwWrite(_, _, _)
bufwWrite(buf, out, p) ==
    LET avail == WriteBufSize - Len(buf)
    IN  IF Len(p) <= avail THEN [bufw |-> buf \o p, out |-> out]
        ELSE IF buf = <<>> THEN [bufw |-> <<>>, out |-> out \o p]
        ELSE bufwWrite(<<>>, out \o buf \o Take(p, avail), Drop(p, avail))

\* bufio.Writer.Flush
Flush(buf, out) == [bufw |-> <<>>, out |-> out \o buf]

---------------------------------------------------------------------------
(* What the peer sends: requests as a client writes them.                  *)

RECURSIVE Itoa(_)
Itoa(n) == IF n < 10 THEN <<Digits[n + 1]>> ELSE Itoa(n \div 10) \o <<Digits[(n % 10) + 1]>>

RECURSIVE Rep(_, _)
Rep(c, n) == IF n <= 0 THEN <<>> ELSE <<c>> \o Rep(c, n - 1)

RECURSIVE Concat(_)
Concat(ss) == IF ss = <<>> THEN <<>> ELSE ss[1] \o Concat(Tail(ss))

HeaderLine(k, v) == k \o <<":", SP>> \o v \o CRLF

\* The chunk framing the chunkReader accepts: a decimal size line, CRLF,
\* the data, CRLF, ..., a zero size line, CRLF.
RECURSIVE EncodeChunks(_)
EncodeChunks(chunks) ==
    IF chunks = <<>> THEN <<"0">> \o CRLF \o CRLF
    ELSE Itoa(Len(chunks[1])) \o CRLF \o chunks[1] \o CRLF \o EncodeChunks(Tail(chunks))

\* A request to send: method, the values of Transfer-Encoding and
\* Content-Length (<<>> for no such header), whether Expect: 100-continue
\* is sent, a filler header value, and the payload as a sequence of chunks
\* (sent chunk-encoded under Transfer-Encoding: chunked, else as one run of
\* bytes when Content-Length is a number).
Req(m, te, cl, ex, fill, chunks) ==
    [Method |-> m, TE |-> te, CL |-> cl, Expect |-> ex, fill |-> fill, chunks |-> chunks,
     CT |-> <<>>, parts |-> <<>>, raw |-> <<>>, lines |-> <<>>]

\* A header line as a client writes it: the name, whether a colon follows,
\* and after the colon white space, the value, white space.
Line(name, colon, lead, value, trail) ==
    [name |-> name, colon |-> colon, lead |-> lead, value |-> value, trail |-> trail]

LineBytes(l) ==
    l.name \o (IF l.colon THEN <<":">> \o l.lead \o l.value \o l.trail ELSE <<>>) \o CRLF

RECURSIVE EncodeLines(_)
EncodeLines(ls) == IF ls = <<>> THEN <<>> ELSE LineBytes(ls[1]) \o EncodeLines(Tail(ls))

\* A chunked request whose body is given byte by byte
RawChunked(m, raw) == [Req(m, sChunked, <<>>, FALSE, <<>>, <<>>) EXCEPT !.raw = raw]

HeaderBytes(d) ==
    d.Method \o <<SP, "/", SP>> \o sProto \o CRLF
    \o (IF d.TE # <<>> THEN HeaderLine(sTransferEncoding, d.TE) ELSE <<>>)
    \o (IF d.CL # <<>> THEN HeaderLine(sContentLength, d.CL) ELSE <<>>)
    \o (IF d.Expect THEN HeaderLine(sExpect, s100continue) ELSE <<>>)
    \o (IF d.CT # <<>> THEN HeaderLine(sContentType, d.CT) ELSE <<>>)
    \o (IF d.fill # <<>> THEN HeaderLine(<<"A">>, d.fill) ELSE <<>>)
    \o EncodeLines(d.lines)
    \o CRLF

BodyBytes(d) ==
    IF d.raw # <<>> THEN d.raw
    ELSE IF d.TE = sChunked THEN EncodeChunks(d.chunks)
    ELSE IF ParseInt(d.CL).ok /\ ParseInt(d.CL).val >= 0 THEN Concat(d.chunks)
    ELSE <<>>

Bytes(d) == HeaderBytes(d) \o BodyBytes(d)

RECURSIVE BytesOfAll(_)
BytesOfAll(ds) == IF ds = <<>> THEN <<>> ELSE Bytes(ds[1]) \o BytesOfAll(Tail(ds))

MaxReqs == 2

Catalog ==
    { Req(sGET, <<>>, <<>>, FALSE, <<>>, <<>>),
      Req(sGET, <<>>, <<>>, FALSE, Rep("a", HeaderLimit), <<>>),
      Req(sPOST, <<>>, <<"4">>, FALSE, <<>>, << <<"a", "b", "c", "d">> >>),
      Req(sPUT, <<>>, <<"2">>, TRUE, <<>>, << <<"a", "b">> >>),
      Req(sPOST, sChunked, <<>>, FALSE, <<>>, << <<"a", "b">>, <<"c">> >>) }

\* What a handler writes in one Write call
HandlerData == { <<"h">> }

\* The lengths of the buffers a handler reads the body into
ReadLens == 1..MaxReadLen \cup {ConnBufSize}

---------------------------------------------------------------------------
(* The state of one connection.                                            *)

VARIABLES
    rwcIn,      \* c.rwc: the bytes sent by the peer and not yet read
    rwcOut,     \* c.rwc: the bytes written to the peer
    lrN,        \* c.lr.N
    bufr,       \* c.bufr: bytes buffered and not yet consumed
    bufw,       \* c.bufw: bytes buffered and not yet written
    pc,         \* where conn.serve is: "readRequest", "handler", "closed"
    req,        \* the Request readRequest returned last
    body,       \* req.Body
    \* history, read by the properties only
    reqs,       \* the requests the peer sends on this connection
    input,      \* the bytes the peer sends in all
    nreq,       \* how many requests readRequest has returned
    reqStart,   \* how many bytes were consumed when readRequest was called
    bodyStart,  \* how many bytes were consumed when the headers were parsed
    got,        \* the body bytes the handler's reads have returned
    last,       \* the result [n, err] of the handler's last Read
    hasRead,    \* the handler has called Read on the body
    nwrites,    \* how many Write calls the handler has made
    pre,        \* how many bytes the handler wrote before its first Read
    mark,       \* how many bytes the response stream held when the request was parsed
    \* the multipart reader of the current request
    mr,         \* the MultipartReader and the parts it has made
    mrBufr,     \* mr.bufr: [mb, err], the bytes buffered and the error stored
    mh,         \* history: the bytes the reads of each part returned, whether a
                \* read of the part while open reported end-of-stream, the last call
                \* with its result, the line the last NextPart read
    \* the server, when several connections are served
    server,     \* the process: "running", or "crashed" by a panic nobody recovered
    backlog,    \* the transports waiting in the listener, each with its peer's bytes
    conns       \* the connections accepted, in the order of Accept

vars == <<rwcIn, rwcOut, lrN, bufr, bufw, pc, req, body,
          reqs, input, nreq, reqStart, bodyStart, got, last, hasRead, nwrites, pre, mark,
          mr, mrBufr, mh, server, backlog, conns>>

multi == <<mr, mrBufr, mh>>
srv == <<server, backlog, conns>>
conn == <<rwcIn, rwcOut, lrN, bufr, bufw>>
hist == <<reqs, input, nreq, reqStart, bodyStart, got, last, hasRead, nwrites, pre, mark>>

NoRequest == [Method |-> <<>>, RequestURI |-> <<>>, Proto |-> <<>>, Header |-> EmptyHeader,
              contentType |-> <<>>, boundary |-> <<>>]
\* The errors of the chunk reader for a framing it does not accept
FramingErrors == {"syntax", "unsupported encoding"}

NoRead == [n |-> 0, err |-> "none", failed |-> FALSE]
NoBufr == [mb |-> <<>>, err |-> "nil"]
NoCalls == [got |-> <<>>, eof |-> <<>>, last |-> [op |-> "none", ret |-> 0, err |-> "nil"],
            line |-> <<>>]

\* How many of the bytes the peer sends have been consumed from c.bufr
Consumed == Len(input) - Len(bufr) - Len(rwcIn)

\* The response stream: the bytes written, on the transport or still in bufw
Response == rwcOut \o bufw

\* No listener: the connection is looked at alone
NoServer == server = "running" /\ backlog = <<>> /\ conns = <<>>

\* newConn, followed by the start of conn.serve
InitConn(rs) ==
    /\ NoServer
    /\ reqs = rs
    /\ input = BytesOfAll(rs)
    /\ rwcIn = input
    /\ rwcOut = <<>>
    /\ lrN = HeaderLimit
    /\ bufr = <<>>
    /\ bufw = <<>>
    /\ pc = "readRequest"
    /\ req = NoRequest
    /\ body = eofReader
    /\ nreq = 0
    /\ reqStart = 0
    /\ bodyStart = 0
    /\ got = <<>>
    /\ last = NoRead
    /\ hasRead = FALSE
    /\ nwrites = 0
    /\ pre = 0
    /\ mark = 0
    /\ mr = [on |-> FALSE, boundary |-> <<>>, eof |-> FALSE, parts |-> <<>>, cur |-> 0]
    /\ mrBufr = NoBufr
    /\ mh = NoCalls

SeqsUpTo(S, n) == UNION {[1..k -> S] : k \in 1..n}

Init == \E rs \in SeqsUpTo(Catalog, MaxReqs) : InitConn(rs)

\* conn.serve: readRequest returns a request; setupResponse
ReadRequestOk ==
    /\ pc = "readRequest"
    /\ LET src == Source(bufr, rwcIn, lrN)
           r   == parseRequest(Visible(src))
       IN  /\ r.err = "nil"
           /\ \E p \in Pulls(src, r.c) :
                LET s2 == After(src, r.c, p)
                IN  /\ bufr' = s2.bufr
                    /\ rwcIn' = s2.rwc
                    /\ bodyStart' = Len(input) - Len(s2.bufr) - Len(s2.rwc)
           /\ lrN' = noLimit
           /\ req' = [Method |-> r.Method, RequestURI |-> r.RequestURI,
                      Proto |-> r.Proto, Header |-> r.Header,
                      contentType |-> parseContentType(r.Header).contentType,
                      boundary |-> parseContentType(r.Header).boundary]
           /\ body' = setupBody(r.Method, r.Header)
    /\ pc' = "handler"
    /\ nreq' = nreq + 1
    /\ reqStart' = Consumed
    /\ got' = <<>>
    /\ last' = NoRead
    /\ hasRead' = FALSE
    /\ nwrites' = 0
    /\ pre' = 0
    /\ mark' = Len(Response)
    /\ mr' = [on |-> FALSE, boundary |-> <<>>, eof |-> FALSE, parts |-> <<>>, cur |-> 0]
    /\ mrBufr' = NoBufr
    /\ mh' = NoCalls
    /\ UNCHANGED <<rwcOut, bufw, reqs, input>>
    /\ UNCHANGED srv

\* (mutant) conn.serve that answers a request it cannot parse before it
\* closes
ReadRequestFail_Replies ==
    /\ pc = "readRequest"
    /\ parseRequest(Visible(Source(bufr, rwcIn, lrN))).err # "nil"
    /\ pc' = "closed"
    /\ rwcOut' = rwcOut \o <<"4", "0", "0">>
    /\ UNCHANGED <<rwcIn, lrN, bufr, bufw, req, body, hist, multi>>
    /\ UNCHANGED srv

\* conn.serve: readRequest returns an error; handleError, return, c.close()
ReadRequestFail ==
    /\ pc = "readRequest"
    /\ parseRequest(Visible(Source(bufr, rwcIn, lrN))).err # "nil"
    /\ pc' = "closed"
    /\ UNCHANGED <<conn, req, body, hist, multi>>
    /\ UNCHANGED srv

\* (mutant) expectContinueReader.Read without the Flush
bodyRead_NoFlush(b, src, sink, len) ==
    LET first == b.expect /\ ~b.wroteContinue
        s2 == IF first THEN bufwWrite(sink.bufw, sink.out, sContinueLine) ELSE sink
        b2 == IF first THEN [b EXCEPT !.wroteContinue = TRUE] ELSE b
    IN  {[n |-> o.n, data |-> o.data, err |-> o.err, body |-> o.body, src |-> o.src,
          sink |-> s2] : o \in innerRead(b2, src, len)}

\* expectContinueReader.Read, or the Read of the reader itself when the
\* body is not wrapped: the outcomes [n, data, err, body, src, sink]
bodyRead(b, src, sink, len) ==
    LET first == b.expect /\ ~b.wroteContinue
        w  == bufwWrite(sink.bufw, sink.out, sContinueLine)
        s2 == IF first THEN Flush(w.bufw, w.out) ELSE sink
        b2 == IF first THEN [b EXCEPT !.wroteContinue = TRUE] ELSE b
    IN  {[n |-> o.n, data |-> o.data, err |-> o.err, body |-> o.body, src |-> o.src,
          sink |-> s2] : o \in innerRead(b2, src, len)}

---------------------------------------------------------------------------
(* The multipart reader: mr.bufr, a bufio.Reader of bufSize bytes over the *)
(* request body.  A stream is a record [mb, err, body, src, sink]: the     *)
(* bytes buffered and unread in mr.bufr, the error mr.bufr has stored, the *)
(* request body, and the connection's source and sink under it.  Each      *)
(* operation returns the set of its outcomes over the transport's          *)
(* segmentations.                                                          *)

\* const bufSize, scaled
bufSize == 8

Stream(mb, err, b, src, sink) == [mb |-> mb, err |-> err, body |-> b, src |-> src, sink |-> sink]

\* bufio.Reader.fill: reads into the free space until a read returns bytes
\* or an error
RECURSIVE mFill(_)
mFill(ms) ==
    UNION {IF o.n = 0 /\ o.err = "nil"
           THEN mFill(Stream(ms.mb, ms.err, o.body, o.src, o.sink))
           ELSE {Stream(ms.mb \o o.data, o.err, o.body, o.src, o.sink)} :
                o \in bodyRead(ms.body, ms.src, ms.sink, bufSize - Len(ms.mb))}

\* bufio.Reader.Peek(n): the loop of fills
PeekDone(ms, n) == Len(ms.mb) >= n \/ Len(ms.mb) >= bufSize \/ ms.err # "nil"

RECURSIVE PeekLoop(_, _)
PeekLoop(M, n) ==
    IF \A ms \in M : PeekDone(ms, n) THEN M
    ELSE PeekLoop(UNION {IF PeekDone(ms, n) THEN {ms} ELSE mFill(ms) : ms \in M}, n)

\* bufio.Reader.Peek(n): the outcomes [peek, err, ms]
mPeek(ms, n) ==
    {IF Len(m.mb) >= n
     THEN [peek |-> Take(m.mb, n), err |-> "nil", ms |-> m]
     ELSE [peek |-> m.mb,
           err |-> IF m.err # "nil" THEN m.err ELSE "ErrBufferFull",
           ms |-> [m EXCEPT !.err = "nil"]] : m \in PeekLoop({ms}, n)}

\* bufio.Reader.Read(p) with len(p) = len on mr.bufr: the outcomes
\* [n, data, err, ms]
mRead(ms, len) ==
    IF len = 0
    THEN IF ms.mb # <<>> THEN {[n |-> 0, data |-> <<>>, err |-> "nil", ms |-> ms]}
         ELSE {[n |-> 0, data |-> <<>>, err |-> ms.err, ms |-> [ms EXCEPT !.err = "nil"]]}
    ELSE IF ms.mb # <<>>
    THEN {[n |-> Min(len, Len(ms.mb)), data |-> Take(ms.mb, len), err |-> "nil",
           ms |-> [ms EXCEPT !.mb = Drop(ms.mb, len)]]}
    ELSE IF ms.err # "nil"
    THEN {[n |-> 0, data |-> <<>>, err |-> ms.err, ms |-> [ms EXCEPT !.err = "nil"]]}
    ELSE IF len >= bufSize
    THEN {[n |-> o.n, data |-> o.data, err |-> o.err,
           ms |-> Stream(<<>>, "nil", o.body, o.src, o.sink)] :
                o \in bodyRead(ms.body, ms.src, ms.sink, len)}
    ELSE {IF o.n = 0
          THEN [n |-> 0, data |-> <<>>, err |-> o.err,
                ms |-> Stream(<<>>, "nil", o.body, o.src, o.sink)]
          ELSE [n |-> Min(len, o.n), data |-> Take(o.data, len), err |-> "nil",
                ms |-> Stream(Drop(o.data, len), o.err, o.body, o.src, o.sink)] :
                o \in bodyRead(ms.body, ms.src, ms.sink, bufSize)}

\* io.ReadFull(mr.bufr, p[:k]): the loop of reads
RECURSIVE ReadFullLoop(_, _)
ReadFullLoop(C, k) ==
    IF \A c \in C : Len(c.data) >= k \/ c.err # "nil" THEN C
    ELSE ReadFullLoop(
            UNION {IF Len(c.data) >= k \/ c.err # "nil" THEN {c}
                   ELSE {[data |-> c.data \o r.data, err |-> r.err, ms |-> r.ms] :
                            r \in mRead(c.ms, k - Len(c.data))} : c \in C}, k)

\* io.ReadFull(mr.bufr, p[:k]): the outcomes [data, err, ms]
mReadFull(ms, k) ==
    {[data |-> c.data,
      err |-> IF Len(c.data) >= k THEN "nil"
              ELSE IF c.data # <<>> /\ c.err = "EOF" THEN "ErrUnexpectedEOF"
              ELSE c.err,
      ms |-> c.ms] : c \in ReadFullLoop({[data |-> <<>>, err |-> "nil", ms |-> ms]}, k)}

\* bufio.Reader.ReadLine on mr.bufr, called by readLine until a line is
\* whole.  A configuration is [acc, done, err, ms]: the fragments joined so
\* far, whether readLine has returned, and its error.
LineStep(c) ==
    LET mb == c.ms.mb
        i  == IndexByte(mb, LF)
        raw == c.acc \o Take(mb, i)
    IN  IF i >= 0
        THEN {[acc |-> IF raw # <<>> /\ raw[Len(raw)] = CR THEN Take(raw, Len(raw) - 1) ELSE raw,
               done |-> TRUE, err |-> "nil", ms |-> [c.ms EXCEPT !.mb = Drop(mb, i + 1)]]}
        ELSE IF c.ms.err # "nil"
        THEN {[acc |-> c.acc \o mb, done |-> TRUE,
               err |-> IF mb = <<>> THEN c.ms.err ELSE "nil",
               ms |-> [c.ms EXCEPT !.mb = <<>>, !.err = "nil"]]}
        ELSE IF Len(mb) >= bufSize
        THEN IF mb[Len(mb)] = CR
             THEN {[c EXCEPT !.acc = @ \o Take(mb, Len(mb) - 1), !.ms.mb = <<CR>>]}
             ELSE {[c EXCEPT !.acc = @ \o mb, !.ms.mb = <<>>]}
        ELSE {[c EXCEPT !.ms = f] : f \in mFill(c.ms)}

RECURSIVE LineLoop(_)
LineLoop(C) ==
    IF \A c \in C : c.done THEN C
    ELSE LineLoop(UNION {IF c.done THEN {c} ELSE LineStep(c) : c \in C})

\* readLine(mr.bufr): the outcomes [line, err, ms]
mReadLine(ms) ==
    {[line |-> c.acc, err |-> c.err, ms |-> c.ms] :
        c \in LineLoop({[acc |-> <<>>, done |-> FALSE, err |-> "nil", ms |-> ms]})}

\* readHeader(mr.bufr): the loop over the lines.  A configuration is
\* [header, done, err, ms].
HeaderStep(c) ==
    {LET index == IndexByte(l.line, ":")
     IN  IF l.err # "nil" THEN [header |-> EmptyHeader, done |-> TRUE, err |-> l.err, ms |-> l.ms]
         ELSE IF l.line = <<>> THEN [header |-> c.header, done |-> TRUE, err |-> "nil", ms |-> l.ms]
         ELSE IF index = -1 \/ index = Len(l.line) - 1
              THEN [header |-> c.header, done |-> FALSE, err |-> "nil", ms |-> l.ms]
         ELSE [header |-> HeaderAppend(c.header, Take(l.line, index),
                                       TrimSpace(Drop(l.line, index + 1))),
               done |-> FALSE, err |-> "nil", ms |-> l.ms] : l \in mReadLine(c.ms)}

RECURSIVE HeaderLoop(_)
HeaderLoop(C) ==
    IF \A c \in C : c.done THEN C
    ELSE HeaderLoop(UNION {IF c.done THEN {c} ELSE HeaderStep(c) : c \in C})

\* readHeader(mr.bufr): the outcomes [header, err, ms]
mReadHeader(ms) ==
    {[header |-> c.header, err |-> c.err, ms |-> c.ms] :
        c \in HeaderLoop({[header |-> EmptyHeader, done |-> FALSE, err |-> "nil", ms |-> ms]})}

\* NewMultipartReader: the patterns made of the boundary
crlfDashBoundary(boundary) == CRLF \o <<"-", "-">> \o boundary
dashBoundary(boundary) == <<"-", "-">> \o boundary
dashBoundaryDash(boundary) == <<"-", "-">> \o boundary \o <<"-", "-">>

\* new(Part) with the header readHeader returned
NewPart(header) == [Header |-> header, closed |-> FALSE, sub |-> FALSE, N |-> 0]

\* An outcome of Part.Read: the result (n, err) with the bytes put in buf,
\* the stream, mr.occurEofErr and the part afterwards
PartOutcome(n, data, err, ms, eof, p) ==
    [n |-> n, data |-> data, err |-> err, ms |-> ms, eof |-> eof, p |-> p]

\* p.substituteReader.Read: io.LimitedReader over mr.bufr
SubstituteRead(ms, eof, p, len) ==
    IF p.N <= 0 THEN {PartOutcome(0, <<>>, "EOF", ms, eof, p)}
    ELSE {PartOutcome(r.n, r.data, r.err, r.ms, eof, [p EXCEPT !.N = @ - r.n]) :
            r \in mRead(ms, Min(len, p.N))}

\* Part.Read from the search of the delimiter in the peeked bytes
PartReadPeeked(boundary, peek, ms, eof, p, len) ==
    LET index == Index(peek, crlfDashBoundary(boundary))
    IN  IF index # -1 \/ eof
        THEN SubstituteRead(ms, eof, [p EXCEPT !.sub = TRUE, !.N = index], len)
        ELSE {PartOutcome(r.n, r.data, r.err, r.ms, eof, p) :
                r \in mRead(ms, Min(len, bufSize - Len(crlfDashBoundary(boundary)) + 1))}

\* Part.Read(buf) with len(buf) = len
RECURSIVE PartRead(_, _, _, _, _)
PartRead(boundary, ms, eof, p, len) ==
    IF p.closed THEN {PartOutcome(0, <<>>, "EOF", ms, eof, p)}
    ELSE IF p.sub THEN SubstituteRead(ms, eof, p, len)
    ELSE IF eof THEN PartReadPeeked(boundary, ms.mb, ms, eof, p, len)
    ELSE UNION {IF k.err = "EOF" THEN PartRead(boundary, k.ms, TRUE, p, len)
                ELSE IF k.err # "nil" THEN {PartOutcome(0, <<>>, k.err, k.ms, eof, p)}
                ELSE PartReadPeeked(boundary, k.peek, k.ms, eof, p, len) :
                    k \in mPeek(ms, bufSize)}

\* io.Copy(ioutil.Discard, p): reads into a buffer of 8192 bytes, twice the
\* size of mr.bufr, until a Read returns an error
RECURSIVE DiscardLoop(_, _)
DiscardLoop(boundary, C) ==
    IF \A c \in C : c.err # "nil" THEN C
    ELSE DiscardLoop(boundary,
            UNION {IF c.err # "nil" THEN {c}
                   ELSE PartRead(boundary, c.ms, c.eof, c.p, 2 * bufSize) : c \in C})

\* Part.Close: the outcomes [err, ms, eof, p]
PartClose(boundary, ms, eof, p) ==
    IF p.closed THEN {[err |-> "nil", ms |-> ms, eof |-> eof, p |-> p]}
    ELSE {[err |-> IF c.err = "EOF" THEN "nil" ELSE c.err, ms |-> c.ms, eof |-> c.eof,
           p |-> [c.p EXCEPT !.closed = TRUE]] :
                c \in DiscardLoop(boundary, {PartOutcome(0, <<>>, "nil", ms, eof, p)})}

\* MultipartReader.discardCRLF: the outcomes [err, ms]
mDiscardCRLF(ms) ==
    {[err |-> IF r.err = "nil" /\ r.data[1] # CR /\ r.data[2] # LF THEN "expect crlf" ELSE r.err,
      ms |-> r.ms] : r \in mReadFull(ms, 2)}

\* The state of a MultipartReader: [on, boundary, eof, parts, cur], with the
\* parts it has made in the order it made them and cur the index of
\* mr.curPart, 0 for nil.
NoReader == [on |-> FALSE, boundary |-> <<>>, eof |-> FALSE, parts |-> <<>>, cur |-> 0]

\* An outcome of NextPart: the part returned (0 for nil) and the error, the
\* stream and the reader afterwards
NextOutcome(ret, err, ms, m) == [ret |-> ret, err |-> err, ms |-> ms, m |-> m, line |-> <<>>]

\* (mutant) NextPart that takes every line but the last delimiter for the
\* delimiter of a part
NextPartLine_AnyLine(ms, m) ==
    UNION {IF l.err # "nil" THEN {NextOutcome(0, l.err, l.ms, m)}
           ELSE IF l.line = dashBoundaryDash(m.boundary)
                THEN {[NextOutcome(0, "EOF", l.ms, m) EXCEPT !.line = <<l.line>>]}
           ELSE {LET made == [m EXCEPT !.parts = Append(@, NewPart(h.header))]
                 IN  IF h.err # "nil"
                     THEN [NextOutcome(Len(made.parts), h.err, h.ms, made)
                              EXCEPT !.line = <<l.line>>]
                     ELSE [NextOutcome(Len(made.parts), "nil", h.ms,
                                       [made EXCEPT !.cur = Len(made.parts)])
                              EXCEPT !.line = <<l.line>>] :
                        h \in mReadHeader(l.ms)} : l \in mReadLine(ms)}

\* NextPart from mr.readLine on
NextPartLine(ms, m) ==
    UNION {IF l.err # "nil" THEN {NextOutcome(0, l.err, l.ms, m)}
           ELSE IF l.line = dashBoundaryDash(m.boundary)
                THEN {[NextOutcome(0, "EOF", l.ms, m) EXCEPT !.line = <<l.line>>]}
           ELSE IF l.line # dashBoundary(m.boundary)
                THEN {[NextOutcome(0, "want delimiter", l.ms, m) EXCEPT !.line = <<l.line>>]}
           ELSE {LET made == [m EXCEPT !.parts = Append(@, NewPart(h.header))]
                 IN  IF h.err # "nil"
                     THEN [NextOutcome(Len(made.parts), h.err, h.ms, made)
                              EXCEPT !.line = <<l.line>>]
                     ELSE [NextOutcome(Len(made.parts), "nil", h.ms,
                                       [made EXCEPT !.cur = Len(made.parts)])
                              EXCEPT !.line = <<l.line>>] :
                        h \in mReadHeader(l.ms)} : l \in mReadLine(ms)}

\* MultipartReader.NextPart
NextPart(ms, m) ==
    IF m.cur = 0 THEN NextPartLine(ms, m)
    ELSE UNION {LET m2 == [m EXCEPT !.eof = c.eof, !.parts[m.cur] = c.p]
                IN  IF c.err # "nil" THEN {NextOutcome(0, c.err, c.ms, m2)}
                    ELSE UNION {IF d.err # "nil" THEN {NextOutcome(0, d.err, d.ms, m2)}
                                ELSE NextPartLine(d.ms, m2) : d \in mDiscardCRLF(c.ms)} :
                    c \in PartClose(m.boundary, ms, m.eof, m.parts[m.cur])}

---------------------------------------------------------------------------
(* The handler's calls.                                                    *)

\* The handler calls r.Body.Read(p) with len(p) = len.  A panic of Read
\* unwinds ServeHTTP and conn.serve, whose deferred function closes.
HandlerRead(len) ==
    /\ pc = "handler"
    /\ \E o \in bodyRead(body, Source(bufr, rwcIn, lrN), [bufw |-> bufw, out |-> rwcOut], len) :
        /\ body' = o.body
        /\ bufr' = o.src.bufr
        /\ rwcIn' = o.src.rwc
        /\ lrN' = o.src.N
        /\ bufw' = o.sink.bufw
        /\ rwcOut' = o.sink.out
        /\ got' = got \o o.data
        /\ last' = [n |-> o.n, err |-> o.err,
                    failed |-> last.failed \/ o.err \in FramingErrors]
        /\ pc' = IF o.err = "panic" THEN "closed" ELSE "handler"
    /\ hasRead' = TRUE
    /\ UNCHANGED <<req, reqs, input, nreq, reqStart, bodyStart, nwrites, pre, mark, multi>>
    /\ UNCHANGED srv

\* The handler calls w.Write(p): response.Write
HandlerWrite(p) ==
    /\ pc = "handler"
    /\ nwrites < MaxWrites
    /\ LET w == bufwWrite(bufw, rwcOut, p)
       IN  bufw' = w.bufw /\ rwcOut' = w.out
    /\ nwrites' = nwrites + 1
    /\ pre' = IF hasRead THEN pre ELSE pre + Len(p)
    /\ UNCHANGED <<rwcIn, lrN, bufr, pc, req, body, reqs, input, nreq, reqStart, bodyStart, got, last,
                   hasRead, mark, multi>>
    /\ UNCHANGED srv

\* conn.serve: ServeHTTP returns; c.bufw.Flush(); the loop goes on
HandlerReturn ==
    /\ pc = "handler"
    /\ LET w == Flush(bufw, rwcOut)
       IN  bufw' = w.bufw /\ rwcOut' = w.out
    /\ pc' = "readRequest"
    /\ UNCHANGED <<rwcIn, lrN, bufr, req, body, hist, multi>>
    /\ UNCHANGED srv

\* (mutant) conn.serve that goes on with the loop when c.bufw.Flush() failed
HandlerReturnFlushFails_GoesOn ==
    /\ pc = "handler"
    /\ bufw # <<>>
    /\ \E k \in 0..(Len(bufw) - 1) :
         /\ rwcOut' = rwcOut \o Take(bufw, k)
         /\ bufw' = Drop(bufw, k)
    /\ pc' = "readRequest"
    /\ UNCHANGED <<rwcIn, lrN, bufr, req, body, hist, multi>>
    /\ UNCHANGED srv

\* conn.serve: ServeHTTP returns and c.bufw.Flush() returns an error: the
\* transport took k of the buffered bytes and not the rest (a Flush of an
\* empty buffer does not write); return, and the deferred c.close()
HandlerReturnFlushFails ==
    /\ pc = "handler"
    /\ bufw # <<>>
    /\ \E k \in 0..(Len(bufw) - 1) :
         /\ rwcOut' = rwcOut \o Take(bufw, k)
         /\ bufw' = Drop(bufw, k)
    /\ pc' = "closed"
    /\ UNCHANGED <<rwcIn, lrN, bufr, req, body, hist, multi>>
    /\ UNCHANGED srv

---------------------------------------------------------------------------
(* A handler that reads the body as multipart/form-data.                   *)

\* (mutant) NewMultipartReader over the connection's reader, not over r.Body
NowStream_OverConn ==
    Stream(mrBufr.mb, mrBufr.err, [body EXCEPT !.kind = "LimitedReader", !.N = noLimit],
           Source(bufr, rwcIn, lrN), [bufw |-> bufw, out |-> rwcOut])

\* The stream under mr.bufr now
NowStream == Stream(mrBufr.mb, mrBufr.err, body, Source(bufr, rwcIn, lrN),
                    [bufw |-> bufw, out |-> rwcOut])

\* The variables of the connection take the stream ms
StreamTaken(ms) ==
    /\ mrBufr' = [mb |-> ms.mb, err |-> ms.err]
    /\ body' = ms.body
    /\ bufr' = ms.src.bufr
    /\ rwcIn' = ms.src.rwc
    /\ lrN' = ms.src.N
    /\ bufw' = ms.sink.bufw
    /\ rwcOut' = ms.sink.out

\* The handler calls r.MultipartReader(): NewMultipartReader
HandlerMultipartReader ==
    /\ pc = "handler"
    /\ ~mr.on
    /\ req.boundary # <<>>
    /\ mr' = [NoReader EXCEPT !.on = TRUE, !.boundary = req.boundary]
    /\ UNCHANGED <<conn, pc, req, body, hist, mrBufr, mh>>
    /\ UNCHANGED srv

\* The handler calls mr.NextPart()
HandlerNextPart ==
    /\ pc = "handler"
    /\ mr.on
    /\ \E o \in NextPart(NowStream, mr) :
        /\ StreamTaken(o.ms)
        /\ mr' = o.m
        /\ mh' = [got |-> IF Len(o.m.parts) > Len(mr.parts) THEN Append(mh.got, <<>>) ELSE mh.got,
                  eof |-> IF Len(o.m.parts) > Len(mr.parts) THEN Append(mh.eof, FALSE) ELSE mh.eof,
                  last |-> [op |-> "NextPart", ret |-> o.ret, err |-> o.err],
                  line |-> o.line]
    /\ UNCHANGED <<pc, req, hist>>
    /\ UNCHANGED srv

\* The handler calls Read(buf) with len(buf) = len on the i-th part made
HandlerPartRead(i, len) ==
    /\ pc = "handler"
    /\ mr.on
    /\ i \in 1..Len(mr.parts)
    /\ \E o \in PartRead(mr.boundary, NowStream, mr.eof, mr.parts[i], len) :
        /\ StreamTaken(o.ms)
        /\ mr' = [mr EXCEPT !.eof = o.eof, !.parts[i] = o.p]
        /\ mh' = [got |-> [mh.got EXCEPT ![i] = @ \o o.data],
                  eof |-> [mh.eof EXCEPT ![i] = @ \/ (o.err = "EOF" /\ ~mr.parts[i].closed)],
                  last |-> [op |-> "Read", ret |-> i, err |-> o.err],
                  line |-> mh.line]
    /\ UNCHANGED <<pc, req, hist>>
    /\ UNCHANGED srv

\* The handler calls Close() on the i-th part made
HandlerPartClose(i) ==
    /\ pc = "handler"
    /\ mr.on
    /\ i \in 1..Len(mr.parts)
    /\ \E o \in PartClose(mr.boundary, NowStream, mr.eof, mr.parts[i]) :
        /\ StreamTaken(o.ms)
        /\ mr' = [mr EXCEPT !.eof = o.eof, !.parts[i] = o.p]
        /\ mh' = [mh EXCEPT !.last = [op |-> "Close", ret |-> i, err |-> o.err]]
    /\ UNCHANGED <<pc, req, hist>>
    /\ UNCHANGED srv

Next ==
    \/ ReadRequestOk
    \/ ReadRequestFail
    \/ \E len \in ReadLens : HandlerRead(len)
    \/ \E p \in HandlerData : HandlerWrite(p)
    \/ HandlerReturn
    \/ HandlerReturnFlushFails

Spec == Init /\ [][Next]_vars

\* One request of the catalog and after it a request without a body or one
\* that expects 100 Continue
Followers ==
    { Req(sGET, <<>>, <<>>, FALSE, <<>>, <<>>),
      Req(sPUT, <<>>, <<"2">>, TRUE, <<>>, << <<"a", "b">> >>) }

InitPair == \E r \in Catalog, f \in Followers : InitConn(<<r, f>>)

SpecPair == InitPair /\ [][Next]_vars

\* The end of a chunked body: a chunk of size zero
LastChunk == <<"0">> \o CRLF \o CRLF

\* Chunked bodies: with a chunk shorter and a chunk longer than the reads of
\* the handler, with a negative size line, with a size line that is no number,
\* and with two bytes that are not CRLF after the data of a chunk
ChunkCatalog ==
    { Req(sPOST, sChunked, <<>>, FALSE, <<>>, << <<"a", "b">> >>),
      Req(sPOST, sChunked, <<>>, FALSE, <<>>, << <<"a", "b", "c", "d", "e">> >>),
      RawChunked(sPOST, <<"-", "1">> \o CRLF \o <<"a">> \o CRLF \o LastChunk),
      RawChunked(sPOST, <<"x">> \o CRLF \o <<"1">> \o CRLF \o <<"c">> \o CRLF \o LastChunk),
      RawChunked(sPOST, <<"5">> \o CRLF \o <<"a", "b", "c", "d", "e", "X", "X">>
                        \o <<"1">> \o CRLF \o <<"c">> \o CRLF \o LastChunk) }

InitChunk == \E r \in ChunkCatalog : InitConn(<<r, Req(sGET, <<>>, <<>>, FALSE, <<>>, <<>>)>>)

SpecChunk == InitChunk /\ [][Next]_vars

\* Header lines: a value between blanks, the same name again, a name in
\* lower case with a tab and a value that holds a colon, a line without a
\* colon, a colon at the end of the line, a colon followed by a blank only,
\* a line that begins with the colon, a name that ends with a blank.
HeaderLineKinds ==
    { Line(<<"K">>, TRUE, <<SP>>, <<"v">>, <<SP>>),
      Line(<<"K">>, TRUE, <<>>, <<"w">>, <<>>),
      Line(<<"k">>, TRUE, <<"\t">>, <<"a", ":", "b">>, <<>>),
      Line(<<"x", "y">>, FALSE, <<>>, <<>>, <<>>),
      Line(<<"K">>, TRUE, <<>>, <<>>, <<>>),
      Line(<<"K">>, TRUE, <<SP>>, <<>>, <<>>),
      Line(<<>>, TRUE, <<>>, <<"v">>, <<>>),
      Line(<<"K", SP>>, TRUE, <<>>, <<"v", SP, "w">>, <<SP, SP>>) }

\* Header blocks of up to two such lines, and three blocks of three lines
HeaderCatalog ==
    UNION {[1..k -> HeaderLineKinds] : k \in 0..2}
    \cup { << Line(<<"K">>, TRUE, <<SP>>, <<"v">>, <<SP>>),
             Line(<<"x", "y">>, FALSE, <<>>, <<>>, <<>>),
             Line(<<"K">>, TRUE, <<>>, <<"w">>, <<>>) >>,
           << Line(<<"K">>, TRUE, <<>>, <<"w">>, <<>>),
             Line(<<"K">>, TRUE, <<>>, <<>>, <<>>),
             Line(<<"K">>, TRUE, <<SP>>, <<"v">>, <<SP>>) >>,
           << Line(<<"K">>, TRUE, <<SP>>, <<>>, <<>>),
             Line(<<"k">>, TRUE, <<"\t">>, <<"a", ":", "b">>, <<>>),
             Line(<<"K">>, TRUE, <<SP>>, <<>>, <<>>) >> }

HeaderReq(m, cl, chunks, ls) == [Req(m, <<>>, cl, FALSE, <<>>, chunks) EXCEPT !.lines = ls]

InitHeader ==
    \E ls \in HeaderCatalog :
        \E r \in {HeaderReq(sGET, <<>>, <<>>, ls), HeaderReq(sPOST, <<"2">>, << <<"a", "b">> >>, ls)} :
            InitConn(<<r, Req(sGET, <<>>, <<>>, FALSE, <<>>, <<>>)>>)

SpecHeader == InitHeader /\ [][Next]_vars

\* Single requests over every combination of method and framing headers
Methods == {sGET, sPOST, sPUT}
TEValues == {<<>>, sChunked, sGzip}
CLValues == {<<>>, <<"2">>, <<"0">>, <<"+", "1">>, <<"-", "1">>, <<"x">>}

InitBody ==
    \E m \in Methods, te \in TEValues, cl \in CLValues, ex \in BOOLEAN :
        InitConn(<<Req(m, te, cl, ex, <<>>, << <<"a", "b">> >>)>>)

SpecBody == InitBody /\ [][Next]_vars

\* A multipart/form-data body as a client writes it: each part is the
\* delimiter line, a header N with the part's name, an empty line, the
\* content and CRLF; the closing delimiter line ends the body.
RECURSIVE EncodeMultipart(_, _)
EncodeMultipart(boundary, ps) ==
    IF ps = <<>> THEN dashBoundaryDash(boundary) \o CRLF
    ELSE dashBoundary(boundary) \o CRLF \o HeaderLine(<<"N">>, ps[1].name) \o CRLF
         \o ps[1].content \o CRLF \o EncodeMultipart(boundary, Tail(ps))

\* The bytes s cut into chunks of n bytes
RECURSIVE Cut(_, _)
Cut(s, n) == IF Len(s) <= n THEN <<s>> ELSE <<Take(s, n)>> \o Cut(Drop(s, n), n)

sBoundaryX == <<"X">>

\* A POST of the parts ps, framed by Content-Length, or by chunks of
\* bufSize bytes when te is chunked
MultipartReq(ps, te) ==
    LET b == EncodeMultipart(sBoundaryX, ps)
    IN  [Method |-> sPOST, TE |-> te, CL |-> IF te = <<>> THEN Itoa(Len(b)) ELSE <<>>,
         Expect |-> FALSE, fill |-> <<>>,
         chunks |-> IF te = <<>> THEN <<b>> ELSE Cut(b, bufSize),
         CT |-> sMultipart \o <<";", SP>> \o sBoundary \o <<"=">> \o sBoundaryX,
         parts |-> ps, raw |-> <<>>, lines |-> <<>>]

\* The contents of a part: more than the peek window holds, with the start
\* of a delimiter inside; a few bytes; none
LongContent == <<"0", "1", "2", "3", "4", "5", CR, LF, "-", "-", "Y">>
ShortContent == <<"a", "b">>

\* The contents of the parts of the bodies the peer sends
PartSeqs ==
    { <<>>,
      << <<>> >>,
      <<LongContent>>,
      << <<>>, LongContent >>,
      <<LongContent, ShortContent>> }

Named(cs) == [i \in 1..Len(cs) |-> [name |-> Itoa(i), content |-> cs[i]]]

\* The lengths of the buffers a handler reads a part into
PartReadLens == {1, bufSize}

\* A part whose header line fills mr.bufr, and whose content starts with a
\* line that reads as a delimiter
WideName == Rep("1", bufSize - 5)
DelimiterContent == dashBoundary(sBoundaryX) \o CRLF \o CRLF \o <<"z">>

\* A chunked POST of that part, the first chunk ending with the header line
WideHeaderReq ==
    LET ps == <<[name |-> WideName, content |-> DelimiterContent]>>
        b  == EncodeMultipart(sBoundaryX, ps)
        k  == Len(dashBoundary(sBoundaryX)) + 2 + bufSize
    IN  [MultipartReq(ps, sChunked) EXCEPT !.chunks = <<Take(b, k), Drop(b, k)>>]

\* The multipart requests the peer sends: each body framed by
\* Content-Length, and two framed by chunks
MultipartCatalog ==
    {MultipartReq(Named(cs), <<>>) : cs \in PartSeqs}
        \cup {MultipartReq(Named(<<LongContent>>), sChunked), WideHeaderReq}

\* A multipart request and a request after it
InitMP ==
    \E r \in MultipartCatalog :
        InitConn(<<r, Req(sGET, <<>>, <<>>, FALSE, <<>>, <<>>)>>)

NextMP ==
    \/ ReadRequestOk
    \/ ReadRequestFail
    \/ HandlerMultipartReader
    \/ HandlerNextPart
    \/ \E i \in 1..Len(mr.parts), len \in PartReadLens : HandlerPartRead(i, len)
    \/ \E i \in 1..Len(mr.parts) : HandlerPartClose(i)
    \/ HandlerReturn

SpecMP == InitMP /\ [][NextMP]_vars

\* A POST of one part with the content c, framed by Content-Length, whose
\* body ends with the content: the delimiter that closes it never comes
TruncatedReq(c) ==
    LET ps == <<[name |-> <<"1">>, content |-> c]>>
        b  == EncodeMultipart(sBoundaryX, ps)
        k  == Len(b) - Len(crlfDashBoundary(sBoundaryX)) - 4
    IN  [MultipartReq(ps, <<>>) EXCEPT !.chunks = <<Take(b, k)>>, !.CL = Itoa(k)]

\* A POST of two parts whose body ends with the header line of the second
\* part, before the empty line that ends the header block
CutInHeaderReq ==
    LET ps == Named(<<ShortContent, ShortContent>>)
        b  == EncodeMultipart(sBoundaryX, ps)
        k  == Len(b) - Len(ShortContent) - Len(crlfDashBoundary(sBoundaryX)) - 6
    IN  [MultipartReq(ps, <<>>) EXCEPT !.chunks = <<Take(b, k)>>, !.CL = Itoa(k)]

\* The bodies that are cut: inside a part of which nothing, one byte, two
\* bytes or more than mr.bufr holds was received, and inside a header block
TruncatedCatalog ==
    {TruncatedReq(c) : c \in {<<>>, <<"a">>, ShortContent, LongContent}}
        \cup {CutInHeaderReq}

\* A body that is cut, or for comparison a complete one, and a request after it
InitTrunc ==
    \E r \in TruncatedCatalog \cup {MultipartReq(Named(<<ShortContent, ShortContent>>), <<>>)} :
        InitConn(<<r, Req(sGET, <<>>, <<>>, FALSE, <<>>, <<>>)>>)

SpecTrunc == InitTrunc /\ [][NextMP]_vars

\* The same multipart body framed by Content-Length and framed by chunks,
\* and a request after it
InitFramed ==
    \E cs \in {<<ShortContent>>, <<ShortContent, ShortContent>>}, te \in {<<>>, sChunked} :
        InitConn(<<MultipartReq(Named(cs), te), Req(sGET, <<>>, <<>>, FALSE, <<>>, <<>>)>>)

SpecFramed == InitFramed /\ [][NextMP]_vars

---------------------------------------------------------------------------
(* Properties.                                                             *)


(***************************************************************************)
(* The server: ListenAndServe accepts transports and serves each in a      *)
(* context of its own.  A connection is a record here, with the fields of  *)
(* conn and the position of its conn.serve.                                *)
(***************************************************************************)
\* What the peers of the server send: two requests without a body, one after
\* the other, and a chunked request whose size line is negative
ServerInputs ==
    { Bytes(Req(sGET, <<>>, <<>>, FALSE, <<>>, <<>>)) \o Bytes(Req(sGET, <<>>, <<>>, FALSE, <<>>, <<>>)),
      Bytes(RawChunked(sPOST, <<"-", "1">> \o CRLF \o <<"a">> \o CRLF \o <<"0">> \o CRLF \o CRLF)) }

\* The listener starts with two transports waiting
Backlogs == {<<a, b>> : a, b \in ServerInputs}

\* newConn: a limited reader, a read buffer and a write buffer of its own
newConn(rwc) ==
    [rwcIn |-> rwc, rwcOut |-> <<>>, lrN |-> HeaderLimit, bufr |-> <<>>, bufw |-> <<>>,
     pc |-> "readRequest", Method |-> <<>>, body |-> eofReader, nreq |-> 0,
     active |-> 0, nwrites |-> 0, panicked |-> FALSE, late |-> FALSE, input |-> rwc]

\* c.svr.Handler.ServeHTTP(res, req) as a go statement: the loop would not wait
callServeHTTP_Go(c) == [c EXCEPT !.active = @ + 1]

\* c.svr.Handler.ServeHTTP(res, req): a call, the loop waits for its return
callServeHTTP(c) == [c EXCEPT !.pc = "handler", !.active = @ + 1]

\* One turn of the loop of conn.serve up to the call of the handler
serveReadRequest(c) ==
    LET src == Source(c.bufr, c.rwcIn, c.lrN)
        r   == parseRequest(Visible(src))
    IN  IF r.err # "nil" THEN {[c EXCEPT !.pc = "closed"]}
        ELSE {LET s2 == After(src, r.c, p)
              IN  callServeHTTP([c EXCEPT !.bufr = s2.bufr, !.rwcIn = s2.rwc,
                                          !.lrN = noLimit, !.Method = r.Method,
                                          !.body = setupBody(r.Method, r.Header),
                                          !.nreq = @ + 1, !.nwrites = 0])
              : p \in Pulls(src, r.c)}

\* The deferred function of conn.serve after a panic of the handler: the
\* connection is closed, what its write buffer holds is lost
servePanic(c) == [c EXCEPT !.pc = "closed", !.active = 0, !.panicked = TRUE]

\* A panic that leaves conn.serve unrecovered ends the process
afterPanic_Unrecovered(s) == "crashed"

\* recover() in the deferred function: the panic ends in this context
afterPanic(s) == s

\* The handler reads the body of its request
serveRead(c, len) ==
    {IF o.err = "panic" THEN servePanic(c)
     ELSE [c EXCEPT !.body = o.body, !.bufr = o.src.bufr, !.rwcIn = o.src.rwc,
                    !.lrN = o.src.N, !.bufw = o.sink.bufw, !.rwcOut = o.sink.out]
     : o \in bodyRead(c.body, Source(c.bufr, c.rwcIn, c.lrN),
                      [bufw |-> c.bufw, out |-> c.rwcOut], len)}

\* The handler of connection i writes p: one write buffer for the whole server
serveWrite_SharedBuffer(cs, i, p) ==
    LET w == bufwWrite(cs[1].bufw, cs[1].rwcOut, p)
    IN  [[cs EXCEPT ![i].nwrites = @ + 1] EXCEPT ![1].bufw = w.bufw, ![1].rwcOut = w.out]

\* The handler of connection i writes p, through the response of connection i
serveWrite(cs, i, p) ==
    LET w == bufwWrite(cs[i].bufw, cs[i].rwcOut, p)
    IN  [cs EXCEPT ![i].bufw = w.bufw, ![i].rwcOut = w.out, ![i].nwrites = @ + 1]

\* The handler returns and conn.serve flushes
serveReturn(c) ==
    LET w == Flush(c.bufw, c.rwcOut)
    IN  [c EXCEPT !.bufw = w.bufw, !.rwcOut = w.out, !.pc = "readRequest", !.active = @ - 1]

\* The variables of the connection looked at alone
one == <<conn, pc, req, body, hist, multi>>

\* l.Accept(), newConn and go conn.serve()
Accept ==
    /\ server = "running"
    /\ backlog # <<>>
    /\ conns' = Append(conns, [newConn(Head(backlog)) EXCEPT
                                 !.late = \E j \in 1..Len(conns) : conns[j].panicked])
    /\ backlog' = Tail(backlog)
    /\ UNCHANGED <<server, one>>

ServeReadRequest(i) ==
    /\ server = "running"
    /\ conns[i].pc = "readRequest"
    /\ \E c \in serveReadRequest(conns[i]) : conns' = [conns EXCEPT ![i] = c]
    /\ UNCHANGED <<server, backlog, one>>

ServeHandlerRead(i, len) ==
    /\ server = "running"
    /\ conns[i].pc = "handler"
    /\ \E c \in serveRead(conns[i], len) :
         /\ conns' = [conns EXCEPT ![i] = c]
         /\ server' = IF c.panicked THEN afterPanic(server) ELSE server
    /\ UNCHANGED <<backlog, one>>

\* The handler writes the method of its request, as MyHandler does
ServeHandlerWrite(i) ==
    /\ server = "running"
    /\ conns[i].pc = "handler"
    /\ conns[i].nwrites < MaxWrites
    /\ conns' = serveWrite(conns, i, conns[i].Method)
    /\ UNCHANGED <<server, backlog, one>>

\* The handler panics by itself
ServeHandlerPanic(i) ==
    /\ server = "running"
    /\ conns[i].pc = "handler"
    /\ conns' = [conns EXCEPT ![i] = servePanic(conns[i])]
    /\ server' = afterPanic(server)
    /\ UNCHANGED <<backlog, one>>

ServeHandlerReturn(i) ==
    /\ server = "running"
    /\ conns[i].pc = "handler"
    /\ conns' = [conns EXCEPT ![i] = serveReturn(conns[i])]
    /\ UNCHANGED <<server, backlog, one>>

InitServer ==
    /\ backlog \in Backlogs
    /\ server = "running"
    /\ conns = <<>>
    /\ rwcIn = <<>> /\ rwcOut = <<>> /\ lrN = HeaderLimit /\ bufr = <<>> /\ bufw = <<>>
    /\ pc = "closed" /\ req = NoRequest /\ body = eofReader
    /\ reqs = <<>> /\ input = <<>> /\ nreq = 0 /\ reqStart = 0 /\ bodyStart = 0
    /\ got = <<>> /\ last = NoRead /\ hasRead = FALSE /\ nwrites = 0 /\ pre = 0 /\ mark = 0
    /\ mr = NoReader /\ mrBufr = NoBufr /\ mh = NoCalls

NextServer ==
    \/ Accept
    \/ \E i \in 1..Len(conns) : ServeReadRequest(i)
    \/ \E i \in 1..Len(conns) : ServeHandlerRead(i, MaxReadLen)
    \/ \E i \in 1..Len(conns) : ServeHandlerWrite(i)
    \/ \E i \in 1..Len(conns) : ServeHandlerPanic(i)
    \/ \E i \in 1..Len(conns) : ServeHandlerReturn(i)

SpecServer == InitServer /\ [][NextServer]_vars

\* Where the k-th request the peer sends starts in the input
Offset(k) == Len(BytesOfAll(SubSeq(reqs, 1, k - 1)))

\* The payload of a request as sent
Payload(d) == Concat(d.chunks)

\* The bytes of the response stream that belong to the current request
Segment == Drop(Response, mark)

CountOcc(s, sub) == Cardinality({i \in 1..Len(s) : HasPrefixAt(s, i, sub)})

ExpectsContinue == Get(req.Header, sExpect) = s100continue

\* The parse of the k-th request the peer sends when it is sent alone, as
\* the first request of a connection
Alone(k) == parseRequest(Visible(Source(<<>>, Bytes(reqs[k]), HeaderLimit)))

\* C1 (framing isolation): when the peer sends valid requests, each of
\* them is parsed, and parsed exactly as when it is sent alone: the same
\* method, request-target, protocol, headers and body reader, with the
\* body starting at the same byte.
C1_FramingIsolation ==
    (\A k \in 1..Len(reqs) : Alone(k).err = "nil") =>
        /\ nreq <= Len(reqs)
        /\ pc = "handler" =>
            /\ req.Method = Alone(nreq).Method
            /\ req.RequestURI = Alone(nreq).RequestURI
            /\ req.Proto = Alone(nreq).Proto
            /\ req.Header = Alone(nreq).Header
            /\ body.kind = setupBody(Alone(nreq).Method, Alone(nreq).Header).kind
            /\ bodyStart = Offset(nreq) + Alone(nreq).c
        /\ (pc = "closed" /\ bufw = <<>>) => nreq = Len(reqs)

\* C2 (drain before next parse): when the request line of request N+1 is
\* about to be read, request N's body reports end-of-stream and none of
\* its bytes is still unread.
C2_DrainBeforeNextParse ==
    (pc = "readRequest" /\ nreq >= 1 /\ nreq < Len(reqs)) =>
        /\ AtEOF(body)
        /\ Consumed >= Offset(nreq + 1)

\* C3 (header cap on every request): whenever parsing of a request starts
\* the cap of the capped reader is at the header limit, and no handler is
\* invoked for a request whose header block is longer than the limit.
C3_HeaderCapOnEveryRequest ==
    /\ pc = "readRequest" => lrN = HeaderLimit
    /\ pc = "handler" => bodyStart - reqStart <= HeaderLimit

\* C4 (chunked round-trip): reading the chunk reader of a chunk-encoded
\* payload to end-of-stream, with any read-buffer lengths, returns the
\* bytes of the payload in order and no error other than end-of-stream.
C4_ChunkedRoundTrip ==
    (pc = "handler" /\ nreq = 1 /\ body.kind = "chunkReader") =>
        /\ got = Take(Payload(reqs[1]), Len(got))
        /\ last.err \in {"none", "nil", "EOF"}
        /\ last.err = "EOF" => got = Payload(reqs[1])

\* C5 (length-limited exactness): the reader for Content-Length: N, over a
\* transport that delivers N bytes after the header block, returns those
\* bytes in order, consumes nothing but the bytes it returns, never more
\* than N, and reports end-of-stream when, and only when, all N are read.
C5_LengthLimitedExact ==
    (pc = "handler" /\ body.kind = "LimitedReader") =>
        LET N == ParseInt(Get(req.Header, sContentLength)).val
        IN  (N >= 0 /\ Len(input) - bodyStart >= N) =>
                /\ got = SubSeq(input, bodyStart + 1, bodyStart + Len(got))
                /\ Consumed = bodyStart + Len(got)
                /\ Len(got) <= N
                /\ last.err \in {"none", "nil", "EOF"}
                /\ last.err = "EOF" <=> (hasRead /\ last.n = 0)
                /\ last.err = "EOF" => Len(got) = N
                /\ Len(got) = N => AtEOF(body)

C5_Witness ==
    /\ pc = "handler" /\ body.kind = "LimitedReader" /\ nreq = 1 /\ Len(reqs) = 2
    /\ last.err = "EOF" /\ Len(got) = 4

\* C7 (expect-once): once a request that carries Expect: 100-continue has
\* been processed, the 100 Continue line is in its response exactly once.
C7_ExpectOnce ==
    (pc = "readRequest" /\ nreq >= 1 /\ ExpectsContinue) =>
        CountOcc(Segment, sContinueLine) = 1

\* C8 (100 Continue before the handler's bytes): for a request with
\* Expect: 100-continue, once the 100 Continue line is written, the response
\* of the request begins with it: no byte the handler wrote comes before
\* it, whether the handler wrote before or after it read the body.
C8_ContinueBeforeHandlerBytes ==
    (nreq >= 1 /\ ExpectsContinue /\ body.wroteContinue) =>
        HasPrefixAt(Segment, 1, sContinueLine)

\* The handler wrote, then read the body, then wrote again
C8_Witness ==
    /\ pc = "handler" /\ body.wroteContinue /\ pre = 1 /\ nwrites = 2 /\ hasRead

\* C9 (100 Continue deferred to the first Read): for a body wrapped by the
\* expectContinueReader, the response holds nothing but the handler's own
\* bytes until the first Read; once Read has been called the line is on
\* the transport, flushed, before any body byte is returned, and it is in
\* the response once only, however many Reads follow.
C9_ContinueOnFirstRead ==
    (pc = "handler" /\ body.expect) =>
        /\ ~hasRead => /\ ~body.wroteContinue
                       /\ CountOcc(Segment, sContinueLine) = 0
                       /\ Len(Segment) = pre
                       /\ got = <<>>
        /\ hasRead => /\ body.wroteContinue
                      /\ HasPrefixAt(rwcOut, mark + pre + 1, sContinueLine)
                      /\ CountOcc(Segment, sContinueLine) = 1

C9_Witness ==
    /\ pc = "handler" /\ body.expect /\ hasRead /\ last.err = "EOF" /\ Len(got) = 2
    /\ pre = 1

\* What "parses as a non-negative integer" means for a Content-Length value
IsNonNegInt(s) ==
    LET ds == IF s # <<>> /\ s[1] = "+" THEN Tail(s) ELSE s
    IN  ds # <<>> /\ \A i \in 1..Len(ds) : IsDigit(ds[i])

NonNegIntVal(s) == DigitsVal(IF s[1] = "+" THEN Tail(s) ELSE s, 0)

\* The empty body: every Read reports end-of-stream at once and consumes
\* nothing.
IsEmptyBody(b) ==
    \A len \in ReadLens :
        \A o \in innerRead(b, Source(bufr, rwcIn, lrN), len) :
            o.n = 0 /\ o.err = "EOF" /\ o.src = Source(bufr, rwcIn, lrN)

\* C10 (body reader selection): a method other than POST and PUT gets the
\* empty body whatever the headers; else Transfer-Encoding: chunked gets
\* the chunk reader even beside a Content-Length; else a Content-Length
\* that is a non-negative integer N gets a reader limited to N bytes; else
\* the empty body.
C10_BodySelection ==
    (pc = "handler" /\ nreq = 1) =>
        LET d == reqs[1]
        IN  IF d.Method \notin {sPOST, sPUT} THEN IsEmptyBody(body) /\ got = <<>>
            ELSE IF d.TE = sChunked THEN body.kind = "chunkReader"
            ELSE IF IsNonNegInt(d.CL)
                 THEN body.kind = "LimitedReader" /\ body.N + Len(got) = NonNegIntVal(d.CL)
            ELSE IsEmptyBody(body) /\ got = <<>>

C10_Witness ==
    /\ pc = "handler" /\ nreq = 1 /\ reqs[1].Method = sPUT
    /\ reqs[1].TE = sChunked /\ reqs[1].CL = <<"2">>
    /\ body.kind = "chunkReader" /\ got = <<"a", "b">>


IsPrefix(s, t) == Len(s) <= Len(t) /\ s = Take(t, Len(s))

\* The parts of the multipart body the peer sent in the current request
Sent == reqs[nreq].parts

\* C6 (multipart totality): for a well-formed multipart body with parts
\* P1..Pk, NextPart makes the parts in the order sent and no more than k of
\* them, each with the header of its part; the reads of part i return the
\* content bytes of Pi in order, all of them and nothing else once a read
\* has reported end-of-stream; no call fails; and NextPart returns
\* end-of-stream exactly when all k parts have been made.
C6_MultipartTotality ==
    (pc = "handler" /\ mr.on) =>
        /\ Len(mr.parts) <= Len(Sent)
        /\ \A i \in 1..Len(mr.parts) :
            /\ Get(mr.parts[i].Header, <<"N">>) = Sent[i].name
            /\ IsPrefix(mh.got[i], Sent[i].content)
            /\ mh.eof[i] => mh.got[i] = Sent[i].content
        /\ mh.last.op = "NextPart" =>
            \/ mh.last.err = "nil" /\ mh.last.ret = Len(mr.parts) /\ mr.cur = Len(mr.parts)
            \/ mh.last.err = "EOF" /\ mh.last.ret = 0 /\ Len(mr.parts) = Len(Sent)
        /\ mh.last.op = "Read" => mh.last.err \in {"nil", "EOF"}
        /\ mh.last.op = "Close" => mh.last.err = "nil"

\* The same for the bodies framed by Content-Length alone
MultipartTotalityByLength == reqs[1].TE = <<>> => C6_MultipartTotality

\* Two parts, the first longer than the peek window, each read to
\* end-of-stream, and the third NextPart has returned end-of-stream
C6_Witness ==
    /\ pc = "handler"
    /\ Len(mr.parts) = 2
    /\ Len(Sent[1].content) > bufSize
    /\ mh.got[1] = Sent[1].content /\ mh.eof[1]
    /\ mh.got[2] = Sent[2].content /\ mh.eof[2] /\ Sent[2].content # <<>>
    /\ mh.last = [op |-> "NextPart", ret |-> 0, err |-> "EOF"]

\* readRequest would return an error now
ParseFails == parseRequest(Visible(Source(bufr, rwcIn, lrN))).err # "nil"

\* C11 (parse failure ends the connection): when readRequest fails, the
\* step the loop takes invokes no handler, adds no byte to the response and
\* closes the transport; and once the transport is closed nothing more is
\* parsed, read or written on the connection.
C11_ParseFailureCloses ==
    [][/\ pc # "closed"
       /\ (pc = "readRequest" /\ ParseFails) =>
            /\ pc' = "closed"
            /\ nreq' = nreq
            /\ Response' = Response]_vars

\* Closed on a parse failure of the second request, with bytes of the peer
\* left unparsed, after a first request was served
C11_Witness ==
    /\ pc = "closed" /\ last.err # "panic" /\ nreq = 1 /\ bufw = <<>>
    /\ Visible(Source(bufr, rwcIn, lrN)) # <<>>

\* C12 (a panic of a handler is contained): the step in which a handler
\* panics closes the transport of its connection and touches no other
\* connection and not the listener; a closed connection parses, reads and
\* writes nothing more; and the server keeps running, so that transports are
\* still accepted and served.
C12_PanicIsContained ==
    [][/\ server' = "running"
       /\ \A i \in 1..Len(conns) :
            /\ conns[i].pc = "closed" => conns'[i] = conns[i]
            /\ (conns'[i].panicked /\ ~conns[i].panicked) =>
                 /\ conns'[i].pc = "closed"
                 /\ conns'[i].nreq = conns[i].nreq
                 /\ conns'[i].rwcOut = conns[i].rwcOut
                 /\ backlog' = backlog
                 /\ \A j \in 1..Len(conns) : j # i => conns'[j] = conns[j]]_vars

\* A transport accepted after a handler panicked on another connection, its
\* request served and answered
C12_Witness ==
    /\ Len(conns) = 2
    /\ conns[1].panicked /\ conns[1].pc = "closed"
    /\ conns[2].late /\ conns[2].nreq = 1 /\ conns[2].pc = "readRequest"
    /\ conns[2].rwcOut # <<>>

\* C13 (one connection is served sequentially): on every connection at most
\* one handler invocation is in progress, and while the loop of conn.serve is
\* at the parse of a request no handler of that connection is in progress:
\* the parse of the next request starts only after the handler of the
\* previous one has returned.
C13_Sequential ==
    \A i \in 1..Len(conns) :
        /\ conns[i].active <= 1
        /\ conns[i].pc = "readRequest" => conns[i].active = 0
        /\ conns[i].pc = "handler" => conns[i].active = 1

\* The handler of the second request of a connection in progress, after the
\* handler of the first has written and returned
C13_Witness ==
    \E i \in 1..Len(conns) :
        /\ conns[i].nreq = 2 /\ conns[i].pc = "handler" /\ conns[i].active = 1
        /\ conns[i].rwcOut # <<>>

\* What a connection has sent and holds in its write buffer
Answered(c) == c.rwcOut \o c.bufw

\* The connection taken alone: the method of the requests its own peer sent
OwnMethod(c) == parseRequest(c.input).Method

\* The state of a connection depends on the bytes of its own transport only
OwnBytesOnly(c) ==
    LET m == OwnMethod(c)
    IN  /\ c.Method \in {<<>>, m}
        /\ \E k \in 0..Len(c.input) : c.bufr \o c.rwcIn = Drop(c.input, k)
        /\ \E k \in 0..(2 * MaxWrites) : Answered(c) = Concat(Rep(m, k))

\* C14 (connections are isolated): with several connections served
\* concurrently, a step touches the read buffer, the cap, the write buffer and
\* the request state of one connection at most, and the requests parsed and
\* the response bytes of every connection are those of its own transport's
\* bytes, whatever the other connections do.
C14_ConnectionsIsolated ==
    [][/\ \A i, j \in 1..Len(conns) :
            i # j => (conns'[i] = conns[i] \/ conns'[j] = conns[j])
       /\ \A i \in 1..Len(conns') : OwnBytesOnly(conns'[i])]_vars

\* Two connections with different requests, both in their handlers, both
\* having written
C14_Witness ==
    /\ Len(conns) = 2
    /\ conns[1].Method # conns[2].Method
    /\ conns[1].pc = "handler" /\ conns[2].pc = "handler"
    /\ Answered(conns[1]) # <<>> /\ Answered(conns[2]) # <<>>

\* C15 (the zero-size chunk ends the stream in the same Read): the Read of
\* the chunk reader that reads the size line 0 of a well-formed chunked body
\* sets done, consumes the CRLF after it and returns 0 bytes with
\* end-of-stream.
C15_ZeroChunkReadReturnsEOF ==
    [][(/\ pc = "handler" /\ reqs[nreq].raw = <<>>
        /\ body.kind = "chunkReader" /\ ~body.done
        /\ body'.kind = "chunkReader" /\ body'.done) =>
            (last'.n = 0 /\ last'.err = "EOF")]_vars

\* The Read that read the size line 0 has returned 0 bytes and no error
C15_Witness ==
    /\ pc = "handler" /\ reqs[nreq].raw = <<>>
    /\ body.kind = "chunkReader" /\ body.done
    /\ last.n = 0 /\ last.err = "nil"

\* C16 (the remaining count is never negative): whatever size lines the
\* peer sends, the count of bytes left in the current chunk is at least 0, and
\* no Read takes a negative count as the length of a slice.
C16_RemainingNeverNegative ==
    body.kind = "chunkReader" => (body.n >= 0 /\ last.err # "panic")

\* The connection closed by the panic of a Read with a negative count
C16_Witness ==
    /\ pc = "closed" /\ body.kind = "chunkReader" /\ body.n < 0 /\ last.err = "panic"

\* C17 (malformed chunk framing is fatal for the body): once a Read of a
\* body with a size line that is no number, or with two bytes that are not
\* CRLF after the data of a chunk, has returned the error of the framing, no
\* later Read of that body returns payload bytes.
C17_FramingErrorIsFatal ==
    [][(/\ pc = "handler" /\ pc' = "handler" /\ reqs[nreq].raw # <<>>
        /\ body.kind = "chunkReader" /\ last.failed) => got' = got]_vars

\* After the error for the size line x, a later Read has returned the byte c
\* of the chunk that follows
C17_Witness ==
    /\ pc = "handler" /\ body.kind = "chunkReader"
    /\ Take(BodyBytes(reqs[nreq]), 1) = <<"x">>
    /\ last.failed /\ got = <<"c">>

\* The chunk reader of the first request has reported end-of-stream after the
\* chunk of size zero
ChunkedEnded ==
    /\ pc = "handler" /\ nreq = 1
    /\ body.kind = "chunkReader" /\ body.done /\ last.err = "EOF"

\* C18 (end-of-stream of a chunked body is exact and stays): when the chunk
\* reader has reported end-of-stream after the zero-size chunk, exactly the
\* bytes of the chunked body through its final CRLF have been consumed from
\* the buffered source, none of the request that follows; and every later Read
\* returns end-of-stream and consumes nothing.
C18_EndOfStreamIsExact ==
    [][/\ ChunkedEnded' => Consumed' = Len(Bytes(reqs'[1]))
       /\ (ChunkedEnded /\ pc' = "handler") =>
             /\ Consumed' = Consumed
             /\ got' = got
             /\ last'.n = 0 /\ last'.err = "EOF"]_vars

\* End-of-stream reported for the body with a chunk longer than the reads of
\* the handler, all of its payload read, and the request that follows already
\* in the buffer of the connection
C18_Witness ==
    /\ ChunkedEnded
    /\ got = <<"a", "b", "c", "d", "e">>
    /\ bufr # <<>>

\* The parts the MultipartReader has produced and not closed
Unclosed(m) == {i \in 1..Len(m.parts) : ~m.parts[i].closed}

\* C19 (one part open at a time): after any sequence of NextPart, Read and
\* Close on one MultipartReader at most one of the parts it has produced is
\* not closed, and a Read on a closed part returns end-of-stream and consumes
\* no byte.
C19_OnePartOpen ==
    [][/\ Cardinality(Unclosed(mr')) <= 1
       /\ (/\ pc = "handler" /\ mh'.last.op = "Read"
           /\ mh'.last.ret \in 1..Len(mr.parts)
           /\ mr.parts[mh'.last.ret].closed) =>
              /\ mh'.last.err = "EOF"
              /\ mh'.got = mh.got
              /\ mrBufr' = mrBufr /\ body' = body /\ bufr' = bufr /\ rwcIn' = rwcIn]_vars

\* Two parts open: the first came back from NextPart with the error of its
\* header, the second from a later NextPart
C19_Witness ==
    /\ pc = "handler" /\ Len(mr.parts) = 2
    /\ Unclosed(mr) = {1, 2}
    /\ mr.cur = 2
    /\ mh.last.op = "NextPart" /\ mh.last.err = "nil"

\* The payload of the rest of a chunked body: n bytes of the current chunk
\* are left, raw are the bytes of the peer not consumed yet
RECURSIVE ChunkedRest(_, _)
ChunkedRest(n, raw) ==
    IF n > 0 THEN Take(raw, n) \o ChunkedRest(0, Drop(raw, n))
    ELSE IF Take(raw, 2) = CRLF THEN ChunkedRest(0, Drop(raw, 2))
    ELSE LET e    == IndexByte(raw, LF)
             size == ParseInt(Take(raw, e - 1))
         IN  IF e < 1 \/ ~size.ok \/ size.val <= 0 THEN <<>>
             ELSE ChunkedRest(size.val, Drop(raw, e + 1))

\* The bytes of the multipart body no call has consumed yet: those mr.bufr
\* holds and those the body would still deliver
UnreadOf(mb, b, raw) ==
    mb \o (CASE b.kind = "LimitedReader" -> Take(raw, b.N)
             [] b.kind = "chunkReader" -> IF b.done THEN <<>> ELSE ChunkedRest(b.n, raw)
             [] OTHER -> <<>>)

\* A step in which Close on the open part i, or the Read of the open part i
\* that reports end-of-stream, returns
Finishes(i) ==
    /\ pc = "handler"
    /\ \/ /\ mh'.last.op = "Close" /\ mh'.last.ret = i
          /\ ~mr.parts[i].closed /\ mr'.parts[i].closed
       \/ mh'.eof[i] /\ ~mh.eof[i]

StopsAtDelimiter ==
    \A i \in 1..Len(mr.parts) :
        Finishes(i) => HasPrefixAt(UnreadOf(mrBufr'.mb, body', bufr' \o rwcIn'), 1,
                                   crlfDashBoundary(mr.boundary))

\* C20 (closing a part stops at its delimiter): when Close on an open part,
\* or the Read of an open part that reports end-of-stream, has returned, the
\* next unread bytes of the multipart body are CRLF, two dashes and the
\* boundary: exactly the rest of the content of the part was consumed, whatever
\* the handler had read of it and however long the part is.
C20_CloseStopsAtDelimiter == [][StopsAtDelimiter]_vars

\* The same for the bodies framed by Content-Length alone
StopsAtDelimiterByLength == [][reqs[1].TE = <<>> => StopsAtDelimiter]_vars

\* Close on the part has returned the error of the chunk reader and has left
\* content of the part unread
C20_Witness ==
    /\ pc = "handler" /\ Len(mr.parts) = 1
    /\ mh.last.op = "Close" /\ mh.last.ret = 1 /\ mh.last.err = "syntax"
    /\ mr.parts[1].closed
    /\ ~HasPrefixAt(UnreadOf(mrBufr.mb, body, bufr \o rwcIn), 1, crlfDashBoundary(mr.boundary))

\* The body of the request ends before its last delimiter
Truncated == Len(BodyBytes(reqs[1])) < Len(EncodeMultipart(sBoundaryX, reqs[1].parts))

\* A step in which NextPart returns, called while the current part of a
\* truncated body is open
NextPartOnOpen ==
    /\ pc = "handler" /\ mr.on /\ mr.cur >= 1 /\ Truncated
    /\ ~mr.parts[mr.cur].closed
    /\ mr'.parts[mr.cur].closed
    /\ mh'.last.op = "NextPart"

\* A step in which a Read of the open current part returns and the body has
\* ended
ReadAtEndOfBody ==
    /\ pc = "handler" /\ mr.on /\ mr.cur >= 1 /\ Truncated
    /\ ~mr.parts[mr.cur].closed
    /\ mr'.eof
    /\ mh'.last.op = "Read" /\ mh'.last.ret = mr.cur
    /\ <<mh, mr, mrBufr>>' # <<mh, mr, mrBufr>>

\* C21 (truncated multipart ends in end-of-stream): when the body ends
\* before the delimiter that closes the current part, whatever was received
\* of the part and not read, the Read of the part that meets the end returns
\* end-of-stream and the next NextPart returns end-of-stream.
C21_TruncatedEndsInEOF ==
    [][/\ ReadAtEndOfBody => mh'.last.err = "EOF"
       /\ NextPartOnOpen => mh'.last.err = "EOF"]_vars

\* NextPart on a part cut after two bytes has returned the error of
\* discardCRLF
C21_Witness ==
    /\ pc = "handler" /\ Len(mr.parts) = 1 /\ mr.parts[1].closed
    /\ Sent[1].content = ShortContent
    /\ mh.last.op = "NextPart" /\ mh.last.err = "expect crlf"

\* A step in which NextPart returns after it has read a line
NextPartReadLine ==
    /\ pc = "handler" /\ mr.on
    /\ mh'.last.op = "NextPart" /\ mh'.line # <<>>
    /\ <<mr, mrBufr, bufr, rwcIn>>' # <<mr, mrBufr, bufr, rwcIn>>

\* NextPart has made no part and has left the current part as it was
NoPartMade == Len(mr'.parts) = Len(mr.parts) /\ mr'.cur = mr.cur /\ mh'.last.ret = 0

\* C22 as stated (NextPart decides on the line): the line '--' boundary '--'
\* gives end-of-stream and no part, the line '--' boundary gives a new current
\* part, any other line gives the error 'want delimiter', no part, and the
\* current part as it was.
C22_NextPartByLine ==
    [][NextPartReadLine =>
         LET line == mh'.line[1]
         IN  IF line = dashBoundaryDash(mr.boundary)
             THEN mh'.last.err = "EOF" /\ NoPartMade
             ELSE IF line = dashBoundary(mr.boundary)
             THEN /\ mh'.last.err = "nil"
                  /\ Len(mr'.parts) = Len(mr.parts) + 1
                  /\ mr'.cur = Len(mr'.parts) /\ mh'.last.ret = mr'.cur
             ELSE mh'.last.err = "want delimiter" /\ NoPartMade]_vars

\* C22 amended: as stated, except that after the line '--' boundary the part
\* made becomes the current part only when its header block could be read;
\* when reading the header block fails NextPart returns that error together
\* with the part made, and the current part stays as it was.
C22_NextPartByLineOrHeaderError ==
    [][NextPartReadLine =>
         LET line == mh'.line[1]
         IN  IF line = dashBoundaryDash(mr.boundary)
             THEN mh'.last.err = "EOF" /\ NoPartMade
             ELSE IF line = dashBoundary(mr.boundary)
             THEN /\ Len(mr'.parts) = Len(mr.parts) + 1
                  /\ mh'.last.ret = Len(mr'.parts)
                  /\ mh'.last.err # "want delimiter"
                  /\ mr'.cur = IF mh'.last.err = "nil" THEN Len(mr'.parts) ELSE mr.cur
             ELSE mh'.last.err = "want delimiter" /\ NoPartMade]_vars

\* NextPart has read the delimiter of the second part and has returned the
\* part with the end of the body as the error of its header block: the first
\* part is still the current one
C22_Witness ==
    /\ pc = "handler" /\ Len(mr.parts) = 2 /\ mr.cur = 1
    /\ mh.line = <<dashBoundary(mr.boundary)>>
    /\ mh.last.op = "NextPart" /\ mh.last.ret = 2 /\ mh.last.err = "EOF"

\* The bytes of the body not consumed yet, before the step
UnreadNow == UnreadOf(mrBufr.mb, body, bufr \o rwcIn)

\* A step in which a Read of the open part i returns
PartReadReturns(i) ==
    /\ pc = "handler" /\ mr.on
    /\ ~mr.parts[i].closed
    /\ mh'.last.op = "Read" /\ mh'.last.ret = i
    /\ <<mh, mr, mrBufr, bufr, rwcIn>>' # <<mh, mr, mrBufr, bufr, rwcIn>>

\* The bytes the Read of part i returns are the next unread bytes of the body,
\* they end before the first delimiter in them, and a full peek window with no
\* delimiter yields bufSize - len(delimiter) + 1 bytes at most.
ReadStopsBeforeDelimiter(i) ==
    LET delim == crlfDashBoundary(mr.boundary)
        data  == Drop(mh'.got[i], Len(mh.got[i]))
        index == Index(UnreadNow, delim)
        took  == Len(UnreadNow) - Len(UnreadOf(mrBufr'.mb, body', bufr' \o rwcIn'))
    IN  /\ data = Take(UnreadNow, Len(data))
        /\ took = Len(data)
        /\ index # -1 => Len(data) <= index
        /\ (Len(UnreadNow) >= bufSize /\ Index(Take(UnreadNow, bufSize), delim) = -1)
              => took <= bufSize - Len(delim) + 1

\* C23 (Part.Read stops before the delimiter): the bytes a Read of a part
\* returns are the next unread bytes of the body and end before the first
\* CRLF, two dashes and boundary in them, also when the delimiter lies across
\* the end of the peek window; and when the peek window is full and holds no
\* delimiter the Read consumes bufSize - len(delimiter) + 1 bytes at most.
C23_ReadStopsBeforeDelimiter ==
    [][\A i \in 1..Len(mr.parts) : PartReadReturns(i) => ReadStopsBeforeDelimiter(i)]_vars

\* The same for the Reads of the reader's current part only: a part NextPart
\* returned together with a header error is not the current part, NextPart
\* does not close it, and its LimitReader keeps a length that was measured
\* before a later NextPart moved the buffered reader.
CurrentPartStopsBeforeDelimiter ==
    [][\A i \in 1..Len(mr.parts) :
          (PartReadReturns(i) /\ mr.cur = i) => ReadStopsBeforeDelimiter(i)]_vars

\* A Read has returned the bytes of the part up to its delimiter, which lay
\* across the end of the peek window when the Read before it returned
C23_Witness ==
    /\ pc = "handler" /\ Len(mr.parts) >= 1
    /\ Sent[1].content = LongContent
    /\ mh.got[1] = LongContent
    /\ mh.last.op = "Read" /\ mh.last.ret = 1 /\ mh.last.err = "nil"
    /\ HasPrefixAt(UnreadNow, 1, crlfDashBoundary(mr.boundary))

---------------------------------------------------------------------------
(* The header block parser.                                                *)

\* The header lines of a request as the peer wrote them
SentLines(d) ==
    (IF d.TE # <<>> THEN <<Line(sTransferEncoding, TRUE, <<SP>>, d.TE, <<>>)>> ELSE <<>>)
    \o (IF d.CL # <<>> THEN <<Line(sContentLength, TRUE, <<SP>>, d.CL, <<>>)>> ELSE <<>>)
    \o (IF d.Expect THEN <<Line(sExpect, TRUE, <<SP>>, s100continue, <<>>)>> ELSE <<>>)
    \o (IF d.CT # <<>> THEN <<Line(sContentType, TRUE, <<SP>>, d.CT, <<>>)>> ELSE <<>>)
    \o (IF d.fill # <<>> THEN <<Line(<<"A">>, TRUE, <<SP>>, d.fill, <<>>)>> ELSE <<>>)
    \o d.lines

\* The lines that are not skipped: a colon, and a byte after it
KeptLines(ls) == SelectSeq(ls, LAMBDA l : l.colon /\ l.lead \o l.value \o l.trail # <<>>)

\* The values written under name k, in the order of the lines
ValuesSent(ls, k) ==
    LET named == SelectSeq(KeptLines(ls), LAMBDA l : l.name = k)
    IN  [i \in 1..Len(named) |-> named[i].value]

SentHeader(ls) ==
    [k \in {KeptLines(ls)[i].name : i \in 1..Len(KeptLines(ls))} |-> ValuesSent(ls, k)]

---------------------------------------------------------------------------
(* The flush between two requests.                                         *)

\* readRequest returns the next request
ParsesNext == pc = "readRequest" /\ nreq' = nreq + 1

\* C25 (flush before the next request): whenever conn.serve is about to
\* parse a request nothing is left in c.bufw, so every byte written for the
\* requests before is on the transport, in the order of the writes, and the
\* response to the next request begins after them; when bytes stay in c.bufw
\* after the handler (the Flush failed) the connection is closed, and a
\* closed connection parses no request.
C25_FlushedBeforeNextParse ==
    [][/\ pc' = "readRequest" => bufw' = <<>>
       /\ ParsesNext => (bufw = <<>> /\ mark' = Len(rwcOut))
       /\ Take(rwcOut', Len(rwcOut)) = rwcOut
       /\ Take(rwcOut' \o bufw', Len(rwcOut \o bufw)) = rwcOut \o bufw
       /\ (pc = "handler" /\ pc' # "handler" /\ bufw' # <<>>) => pc' = "closed"
       /\ pc = "closed" => (pc' = "closed" /\ nreq' = nreq)]_vars

\* The Flush after the first of two requests failed when the transport had
\* taken one of the two bytes the handler wrote: the connection is closed
\* with the second request not parsed.
C25_Witness ==
    /\ pc = "closed"
    /\ nreq = 1
    /\ Len(reqs) = 2
    /\ rwcOut = <<"h">>
    /\ bufw = <<"h">>

---------------------------------------------------------------------------
(* The multipart reader and the end of the body.                           *)

\* How many bytes the peer has sent when the body of the current request
\* ends: the Content-Length is used up or the last chunk is over
EndOfBody == Offset(nreq + 1)

\* C26 (the multipart reader stays within the body): while the handler of a
\* request that was parsed from its first byte reads the body through the
\* MultipartReader, no byte after the end of the body has been consumed from
\* the connection's reader, whatever NextPart, Part.Read and Part.Close
\* return: the bytes of the request that follows are still there to parse.
C26_MultipartStaysInBody ==
    (pc = "handler" /\ mr.on /\ nreq \in 1..Len(reqs) /\ reqStart = Offset(nreq)) =>
        Consumed <= EndOfBody

\* NextPart has reported the end of the parts of a body framed by
\* Content-Length; the body is consumed to its last byte while bytes of the
\* request that follows wait in c.bufr.
C26_Witness ==
    /\ pc = "handler"
    /\ mr.on
    /\ nreq = 1
    /\ reqs[1].TE = <<>>
    /\ mh.last.op = "NextPart"
    /\ mh.last.err = "EOF"
    /\ Consumed = EndOfBody
    /\ bufr # <<>>

\* The chunk reader under the multipart reader has read the last chunk of a
\* chunked body, and nothing after it is consumed.
C26_WitnessChunked ==
    /\ pc = "handler"
    /\ mr.on
    /\ nreq = 1
    /\ reqs[1].TE = sChunked
    /\ body.done
    /\ Consumed = EndOfBody

=======================================================================
